---- MODULE Spec2Model ----
(***************************************************************************)
(* Extraction-and-verification pipeline of the document workflow backend:  *)
(* the text chunker and the extraction orchestrator (services/aoai.py) and *)
(* the workflow runner with its figure-description cache and its           *)
(* self-correction loop (services/workflow_runner.py).                     *)
(*                                                                         *)
(* A text is a sequence of characters.  The chunker looks at a character   *)
(* only to decide whether it is whitespace, so a character is 0            *)
(* (whitespace) or the number of its position in the text (a character     *)
(* that is not whitespace): all characters that are not whitespace are     *)
(* distinct, and a loss, a duplication or a reordering of any of them      *)
(* shows.                                                                  *)
(***************************************************************************)
EXTENDS Integers, Sequences, FiniteSets, TLC

VARIABLES
    MAX_CHUNK_CHARS,  \* aoai.py:17, read from the environment at import
    text,             \* split_into_sections: its text argument
    sections,         \* split_into_sections: its sections argument
    chunks,           \* the chunk list split_into_sections returned
    pc,               \* where the program is
    \* _generate_with_chunking
    fut,              \* chunk position -> state of its future in the pool
    chunk_result,     \* chunk position -> "parsed" of what its call returned
    collected,        \* the futures the as_completed loop has taken
    chunk_outputs,    \* the list of partial outputs
    synth_input,      \* the list the synthesis call was given
    chunk_calls,      \* chunk position -> LLM calls issued for that chunk
    synth_calls,      \* synthesis calls issued
    call_raised,      \* whether an LLM call of this request has raised
    result,           \* what _generate_with_chunking returned
    \* the figure files and the figure-description cache, on disk
    figures,          \* document id -> number of images stored for it
    cache,            \* document id -> cached figure descriptions, or None
    \* run_workflow
    doc_id,           \* the document of the run
    figure_descriptions,
    vision,           \* image index -> outcome of its vision call
    vision_calls,     \* vision calls issued by the run
    vision_raised,    \* whether a vision call of the run has raised
    cache_written,    \* whether the run has written the cache
    cached_before,    \* what the run read from the cache
    parsed,           \* result["parsed"]
    errors,           \* grounding_result["errors"]
    correction_round,
    all_corrections,  \* len(all_corrections)
    correction_calls, \* calls of correct_ungrounded_claims
    fast_validations, \* calls of validate_grounding with skip_llm
    grounding,        \* result["grounding"]
    \* validate_grounding and correct_ungrounded_claims, grounding.py
    output,           \* the structured result given to validate_grounding
    judge,            \* what the semantic-judge call does
    skip_llm,         \* validate_grounding: its skip_llm argument
    judge_calls,      \* semantic-judge calls issued
    report,           \* the report validate_grounding returned
    response,         \* what the correction call does
    corrected,        \* correct_ungrounded_claims: the output it returned
    corrections_applied, \* correct_ungrounded_claims: the list it returned
    \* _match_figures_to_paper, aoai.py
    fig_refs,         \* the figure references found in the text
    images,           \* its figure_descriptions argument
    matched,          \* the list it returned
    returned_figures, \* run_workflow: result["figure_descriptions"]
    \* _verify_stat_evidence and _verify_quotes, grounding.py
    source_text,      \* the source text the evidence is checked against
    statistical_evidence, \* the statistical evidence of a key finding
    stat_check,       \* what _verify_stat_evidence returned for it
    supporting_quote, \* a supporting quote of the output
    quote_result      \* the result _verify_quotes made for it

chunkerVars == <<text, sections>>
orchVars == <<fut, chunk_result, collected, chunk_outputs, synth_input,
              chunk_calls, synth_calls, call_raised, result>>
storeVars == <<figures, cache>>
runLocals == <<doc_id, figure_descriptions, vision, vision_calls, vision_raised,
               cache_written, cached_before, parsed, errors, correction_round,
               all_corrections, correction_calls, fast_validations, grounding>>
runVars == <<storeVars, runLocals>>
groundVars == <<output, judge, skip_llm, judge_calls, report, response,
                corrected, corrections_applied>>
matchVars == <<fig_refs, images, matched, returned_figures>>
evidenceVars == <<source_text, statistical_evidence, stat_check,
                  supporting_quote, quote_result>>
unitVars == <<groundVars, matchVars, evidenceVars>>
vars == <<MAX_CHUNK_CHARS, text, sections, chunks, pc, orchVars, runVars,
          unitVars>>

----------------------------------------------------------------------------
(* Bounds of the model *)

MaxTextLen == 3
MaxSections == 2
MaxBudget == 3
MaxChunks == 2
MaxFigures == 1
MaxImages == 2
MaxErrors == 2

----------------------------------------------------------------------------
(* Python values and string operations *)

None == <<>>
Some(v) == <<v>>

IsSpace(c) == c = 0

\* "\n\n", the separator _merge_small_chunks puts before a chunk
BlankLine == <<0, 0>>

RECURSIVE lstrip(_)
lstrip(s) ==
    IF s = <<>> THEN s
    ELSE IF IsSpace(Head(s)) THEN lstrip(Tail(s)) ELSE s

RECURSIVE rstrip(_)
rstrip(s) ==
    IF s = <<>> THEN s
    ELSE IF IsSpace(s[Len(s)]) THEN rstrip(SubSeq(s, 1, Len(s) - 1)) ELSE s

\* str.strip()
strip(s) == rstrip(lstrip(s))

\* a slice index as Python normalises it: negative counts from the end,
\* and the result is clamped to 0..n
SliceIndex(i, n) ==
    IF i < 0 THEN (IF i + n < 0 THEN 0 ELSE i + n)
    ELSE IF i > n THEN n ELSE i

\* s[a:b]
Slice(s, a, b) ==
    LET lo == SliceIndex(a, Len(s))
        hi == SliceIndex(b, Len(s))
    IN  IF lo >= hi THEN <<>> ELSE SubSeq(s, lo + 1, hi)

\* the characters of s that are not whitespace, in order
RECURSIVE NonSpace(_)
NonSpace(s) ==
    IF s = <<>> THEN <<>>
    ELSE IF IsSpace(Head(s)) THEN NonSpace(Tail(s))
         ELSE <<Head(s)>> \o NonSpace(Tail(s))

----------------------------------------------------------------------------
(* The text chunker, aoai.py *)

Chunk(h, c) == [heading |-> h, content |-> c]

\* _chunk_by_size: slices of max_size characters, headed "Part N"
RECURSIVE ChunkBySizeFrom(_, _, _, _)
ChunkBySizeFrom(t, max_size, i, acc) ==
    IF i >= Len(t) THEN acc
    ELSE ChunkBySizeFrom(t, max_size, i + max_size,
             Append(acc, Chunk("Part " \o ToString(Len(acc) + 1),
                               Slice(t, i, i + max_size))))

_chunk_by_size(t, max_size) == ChunkBySizeFrom(t, max_size, 0, <<>>)

\* _merge_small_chunks: the loop over the chunks, with the buffer
RECURSIVE MergeLoop(_, _, _, _, _)
MergeLoop(cs, max_size, merged, buffer_heading, buffer_content) ==
    IF cs = <<>>
    THEN IF buffer_content # <<>>
         THEN Append(merged, Chunk(buffer_heading, strip(buffer_content)))
         ELSE merged
    ELSE LET chunk == Head(cs) IN
         IF Len(buffer_content) + Len(chunk.content) < max_size
         THEN MergeLoop(Tail(cs), max_size, merged,
                  IF buffer_heading # ""
                  THEN buffer_heading \o " + " \o chunk.heading
                  ELSE chunk.heading,
                  buffer_content \o BlankLine \o chunk.content)
         ELSE MergeLoop(Tail(cs), max_size,
                  IF buffer_content # <<>>
                  THEN Append(merged, Chunk(buffer_heading, strip(buffer_content)))
                  ELSE merged,
                  chunk.heading, chunk.content)

\* a merge that joins a chunk to the buffer when the two reach the budget
RECURSIVE MergeLoop_reaching(_, _, _, _, _)
MergeLoop_reaching(cs, max_size, merged, buffer_heading, buffer_content) ==
    IF cs = <<>>
    THEN IF buffer_content # <<>>
         THEN Append(merged, Chunk(buffer_heading, strip(buffer_content)))
         ELSE merged
    ELSE LET chunk == Head(cs) IN
         IF Len(buffer_content) + Len(chunk.content) >= max_size
         THEN MergeLoop_reaching(Tail(cs), max_size, merged,
                  IF buffer_heading # ""
                  THEN buffer_heading \o " + " \o chunk.heading
                  ELSE chunk.heading,
                  buffer_content \o BlankLine \o chunk.content)
         ELSE MergeLoop_reaching(Tail(cs), max_size,
                  IF buffer_content # <<>>
                  THEN Append(merged, Chunk(buffer_heading, strip(buffer_content)))
                  ELSE merged,
                  chunk.heading, chunk.content)

_merge_small_chunks_reaching(cs, max_size) ==
    MergeLoop_reaching(cs, max_size, <<>>, "", <<>>)

_merge_small_chunks(cs, max_size) == MergeLoop(cs, max_size, <<>>, "", <<>>)

\* sorted(..., key=offset): a stable insertion sort
RECURSIVE InsertByOffset(_, _)
InsertByOffset(s, sorted) ==
    IF sorted = <<>> THEN <<s>>
    ELSE IF s.offset[1] < Head(sorted).offset[1]
         THEN <<s>> \o sorted
         ELSE <<Head(sorted)>> \o InsertByOffset(s, Tail(sorted))

RECURSIVE SortLoop(_, _)
SortLoop(secs, sorted) ==
    IF secs = <<>> THEN sorted
    ELSE SortLoop(Tail(secs), InsertByOffset(Head(secs), sorted))

HasOffset(s) == s.offset # None

\* a chunker that takes the sections in the order given
SortedSections_unsorted(secs) == SelectSeq(secs, HasOffset)

\* the sections that have an offset, sorted by it
SortedSections(secs) == SortLoop(SelectSeq(secs, HasOffset), <<>>)

\* the chunk of the text before the first section
PreambleChunks(t, sorted_sections) ==
    LET first_offset == sorted_sections[1].offset[1]
        preamble == strip(Slice(t, 0, first_offset))
    IN  IF first_offset > 0 /\ preamble # <<>>
        THEN <<Chunk("Preamble / Title", preamble)>>
        ELSE <<>>

\* one chunk per section that has content
RECURSIVE SectionChunks(_, _, _)
SectionChunks(t, sorted_sections, i) ==
    IF i > Len(sorted_sections) THEN <<>>
    ELSE LET start == sorted_sections[i].offset[1]
             end == IF i + 1 <= Len(sorted_sections)
                    THEN sorted_sections[i + 1].offset[1]
                    ELSE Len(t)
             content == strip(Slice(t, start, end))
         IN  (IF content # <<>>
              THEN <<Chunk(sorted_sections[i].heading, content)>>
              ELSE <<>>)
             \o SectionChunks(t, sorted_sections, i + 1)

split_into_sections(t, secs, max_size) ==
    IF Len(secs) < 2 THEN _chunk_by_size(t, max_size)
    ELSE LET sorted_sections == SortedSections(secs) IN
         IF sorted_sections = <<>> THEN _chunk_by_size(t, max_size)
         ELSE _merge_small_chunks(
                  PreambleChunks(t, sorted_sections)
                      \o SectionChunks(t, sorted_sections, 1),
                  max_size)

----------------------------------------------------------------------------
(* Inputs *)

Headings == {"Methods", "Results"}

\* texts of at most n characters
Texts(n) ==
    UNION {{t \in [1..k -> 0..k] : \A i \in 1..k : t[i] \in {0, i}} : k \in 0..n}

Offsets(n) == {None} \cup {Some(o) : o \in 0..n}

SectionRecs(n) == [heading : Headings, offset : Offsets(n)]

SectionLists(m, n) == UNION {[1..k -> SectionRecs(n)] : k \in 0..m}

----------------------------------------------------------------------------
(* safe_parse_json, utils/json_safe.py *)

\* What an LLM call returns is a text.  Its shape says where the JSON
\* candidate stands in it: the whole text ("bare"), inside a ```json fence,
\* inside a plain ``` fence, or after and before prose; its value says what
\* the candidate is: a JSON object with members, the object {}, an array of
\* numbers, the literal null, or no JSON at all.
RawShapes == {"bare", "fenced_json", "fenced", "prose"}
RawValues == {"object", "empty_object", "array", "null", "invalid"}
Raws == [shape : RawShapes, value : RawValues]

\* json.loads of a candidate: <<TRUE, v>> when it parses to v, and
\* <<FALSE, None>> when it raises JSONDecodeError
json_loads(value) ==
    IF value = "invalid" THEN <<FALSE, None>>
    ELSE IF value = "null" THEN <<TRUE, None>>
    ELSE <<TRUE, Some(value)>>

\* the candidates the patterns of safe_parse_json find in a text that is
\* not JSON as a whole, in the order tried: the inside of a ```json fence,
\* the inside of a ``` fence (of a ```json fence, that is the word json and
\* what follows it: no JSON), and the text from the first { to the last }
Candidates(raw) ==
    LET braces == IF raw.value \in {"object", "empty_object"}
                  THEN <<raw.value>> ELSE <<>>
    IN  IF raw.shape = "fenced_json" THEN <<raw.value, "invalid">> \o braces
        ELSE IF raw.shape = "fenced" THEN <<raw.value>> \o braces
        ELSE IF raw.shape = "prose" THEN braces
        ELSE <<>>

\* lines 23-31: the first candidate that json.loads accepts is returned
RECURSIVE FirstParsed(_)
FirstParsed(candidates) ==
    IF candidates = <<>> THEN None
    ELSE IF json_loads(Head(candidates))[1]
         THEN json_loads(Head(candidates))[2]
         ELSE FirstParsed(Tail(candidates))

safe_parse_json(raw) ==
    IF raw.shape = "bare" /\ json_loads(raw.value)[1]
    THEN json_loads(raw.value)[2]
    ELSE FirstParsed(Candidates(raw))

\* Python's truth value of a parsed JSON value
Truthy(v) == v # None /\ v[1] # "empty_object"

----------------------------------------------------------------------------
(* The extraction orchestrator, aoai.py: _generate_with_chunking *)

\* The "AI VISION ANALYSIS" block appended to the text: a blank line, the
\* banner, and one entry per matched figure, each ended by a blank line
RECURSIVE FigureEntries(_, _)
FigureEntries(at, n) ==
    IF n = 0 THEN <<>>
    ELSE <<at>> \o BlankLine \o FigureEntries(at + 3, n - 1)

enriched_text(t, n_matched) ==
    IF n_matched = 0 THEN t
    ELSE t \o BlankLine \o <<Len(t) + 3>> \o BlankLine
           \o FigureEntries(Len(t) + 6, n_matched)

\* the pool size of the per-chunk fan-out
ChunkWorkers == 4

Positions == DOMAIN chunks

Running == {i \in Positions : fut[i] = "running"}

OrchIdle ==
    /\ fut = <<>>
    /\ chunk_result = <<>>
    /\ collected = {}
    /\ chunk_outputs = <<>>
    /\ synth_input = None
    /\ chunk_calls = <<>>
    /\ synth_calls = 0
    /\ call_raised = FALSE
    /\ result = None

\* no run of the workflow
RunLocalsIdle ==
    /\ doc_id = None
    /\ figure_descriptions = <<>>
    /\ vision = <<>>
    /\ vision_calls = 0
    /\ vision_raised = FALSE
    /\ cache_written = FALSE
    /\ cached_before = None
    /\ parsed = None
    /\ errors = 0
    /\ correction_round = 0
    /\ all_corrections = 0
    /\ correction_calls = 0
    /\ fast_validations = 0
    /\ grounding = None

DocIds == {"docA", "docB"}

\* no call of the grounding functions or of the figure matcher
UnitIdle ==
    /\ output = None
    /\ judge = None
    /\ skip_llm = FALSE
    /\ judge_calls = 0
    /\ report = None
    /\ response = None
    /\ corrected = None
    /\ corrections_applied = <<>>
    /\ fig_refs = <<>>
    /\ images = <<>>
    /\ matched = None
    /\ returned_figures = None
    /\ source_text = ""
    /\ statistical_evidence = ""
    /\ stat_check = None
    /\ supporting_quote = ""
    /\ quote_result = None

NoRun ==
    /\ figures = [d \in DocIds |-> 0]
    /\ cache = [d \in DocIds |-> None]
    /\ RunLocalsIdle
    /\ UnitIdle

\* lines 397-439: match the figures, enrich and split the text; one chunk
\* is processed directly, any other number of chunks is submitted to the pool
Generate ==
    /\ pc = "start"
    /\ \E t \in Texts(MaxChunks), secs \in SectionLists(MaxSections, MaxChunks),
          n_matched \in 0..MaxFigures :
           LET cs == split_into_sections(enriched_text(t, n_matched), secs,
                                         MAX_CHUNK_CHARS)
           IN  /\ Len(cs) <= MaxChunks
               /\ chunks' = cs
               /\ fut' = [i \in DOMAIN cs |-> "queued"]
               /\ chunk_result' = [i \in DOMAIN cs |-> None]
               /\ chunk_calls' = [i \in DOMAIN cs |-> 0]
               /\ pc' = IF Len(cs) = 1 THEN "single" ELSE "fanout"
    /\ UNCHANGED <<unitVars, runVars, MAX_CHUNK_CHARS, chunkerVars, collected, chunk_outputs,
                   synth_input, synth_calls, call_raised, result>>

\* line 418: _process_single_chunk on the only chunk; the call raises, or
\* returns a text that is parsed
SingleChunk ==
    /\ pc = "single"
    /\ chunk_calls' = [chunk_calls EXCEPT ![1] = @ + 1]
    /\ \/ /\ pc' = "raised"
          /\ call_raised' = TRUE
          /\ UNCHANGED result
       \/ \E raw \in Raws :
              /\ result' = Some([parsed |-> safe_parse_json(raw), raw |-> raw])
              /\ pc' = "returned"
              /\ UNCHANGED call_raised
    /\ UNCHANGED <<unitVars, runVars, MAX_CHUNK_CHARS, chunkerVars, chunks, fut, chunk_result,
                   collected, chunk_outputs, synth_input, synth_calls>>

\* a pool worker takes the next submitted chunk (the pool's queue is
\* first-in first-out) and issues its LLM call; the pool keeps working
\* while an exception unwinds the with block
StartChunk(i) ==
    /\ pc \in {"fanout", "unwinding"}
    /\ fut[i] = "queued"
    /\ \A j \in Positions : j < i => fut[j] # "queued"
    /\ Cardinality(Running) < ChunkWorkers
    /\ fut' = [fut EXCEPT ![i] = "running"]
    /\ chunk_calls' = [chunk_calls EXCEPT ![i] = @ + 1]
    /\ UNCHANGED <<unitVars, runVars, MAX_CHUNK_CHARS, chunkerVars, chunks, pc, chunk_result,
                   collected, chunk_outputs, synth_input, synth_calls,
                   call_raised, result>>

\* lines 431-436 and 461-493: the call of chunk i raises, or returns
FinishChunk(i) ==
    /\ pc \in {"fanout", "unwinding"}
    /\ fut[i] = "running"
    /\ \/ /\ fut' = [fut EXCEPT ![i] = "raised"]
          /\ call_raised' = TRUE
          /\ UNCHANGED chunk_result
       \/ \E raw \in Raws :
              /\ fut' = [fut EXCEPT ![i] = "done"]
              /\ chunk_result' = [chunk_result EXCEPT ![i] = safe_parse_json(raw)]
              /\ UNCHANGED call_raised
    /\ UNCHANGED <<unitVars, runVars, MAX_CHUNK_CHARS, chunkerVars, chunks, pc, collected,
                   chunk_outputs, synth_input, chunk_calls, synth_calls, result>>

\* line 442: whether the as_completed loop keeps a chunk's result
Kept(v) == Truthy(v)

\* a loop that drops the result of a call that raised and goes on
Collect_swallow(i) ==
    /\ pc = "fanout"
    /\ i \notin collected
    /\ fut[i] \in {"done", "raised"}
    /\ collected' = collected \cup {i}
    /\ pc' = pc
    /\ chunk_outputs' =
           IF fut[i] = "done" /\ Kept(chunk_result[i])
           THEN Append(chunk_outputs,
                       [section |-> chunks[i].heading,
                        output |-> chunk_result[i],
                        position |-> i])
           ELSE chunk_outputs
    /\ UNCHANGED <<unitVars, runVars, MAX_CHUNK_CHARS, chunkerVars, chunks, fut, chunk_result,
                   synth_input, chunk_calls, synth_calls, call_raised, result>>

\* lines 440-446: the as_completed loop takes a finished future;
\* future.result() raises what the call raised, and ends the loop
Collect(i) ==
    /\ pc = "fanout"
    /\ i \notin collected
    /\ fut[i] \in {"done", "raised"}
    /\ collected' = collected \cup {i}
    /\ IF fut[i] = "raised"
       THEN /\ pc' = "unwinding"
            /\ UNCHANGED chunk_outputs
       ELSE /\ pc' = pc
            /\ chunk_outputs' =
                   IF Kept(chunk_result[i])
                   THEN Append(chunk_outputs,
                               [section |-> chunks[i].heading,
                                output |-> chunk_result[i],
                                position |-> i])
                   ELSE chunk_outputs
    /\ UNCHANGED <<unitVars, runVars, MAX_CHUNK_CHARS, chunkerVars, chunks, fut, chunk_result,
                   synth_input, chunk_calls, synth_calls, call_raised, result>>

\* leaving the with block waits for every submitted call
\* (shutdown(wait=True)); then the exception leaves _generate_with_chunking
Unwound ==
    /\ pc = "unwinding"
    /\ \A i \in Positions : fut[i] \in {"done", "raised"}
    /\ pc' = "raised"
    /\ UNCHANGED <<unitVars, runVars, MAX_CHUNK_CHARS, chunkerVars, chunks, orchVars>>

\* lines 449-451: the key chunk_outputs is sorted by, the position of the
\* first chunk that has the output's heading (0-based; 0 when none has)
RECURSIVE FirstWithHeading(_, _, _)
FirstWithHeading(cs, h, i) ==
    IF i > Len(cs) THEN 0
    ELSE IF cs[i].heading = h THEN i - 1
         ELSE FirstWithHeading(cs, h, i + 1)

SortKey(cs, c) == FirstWithHeading(cs, c.section, 1)

\* list.sort(key=...): a stable insertion sort
RECURSIVE InsertByKey(_, _, _)
InsertByKey(cs, c, sorted) ==
    IF sorted = <<>> THEN <<c>>
    ELSE IF SortKey(cs, c) < SortKey(cs, Head(sorted))
         THEN <<c>> \o sorted
         ELSE <<Head(sorted)>> \o InsertByKey(cs, c, Tail(sorted))

RECURSIVE SortOutputs(_, _, _)
SortOutputs(cs, outs, sorted) ==
    IF outs = <<>> THEN sorted
    ELSE SortOutputs(cs, Tail(outs), InsertByKey(cs, Head(outs), sorted))

\* a merge that starts as soon as one future has been taken
Synthesize_early ==
    /\ pc = "fanout"
    /\ collected # {}
    /\ chunk_outputs' = SortOutputs(chunks, chunk_outputs, <<>>)
    /\ synth_input' = Some(chunk_outputs')
    /\ synth_calls' = synth_calls + 1
    /\ pc' = "synthesis"
    /\ UNCHANGED <<unitVars, runVars, MAX_CHUNK_CHARS, chunkerVars, chunks, fut, chunk_result,
                   collected, chunk_calls, call_raised, result>>

\* lines 448-457: the loop has taken every future; the outputs are sorted
\* and the synthesis call is issued
Synthesize ==
    /\ pc = "fanout"
    /\ collected = Positions
    /\ chunk_outputs' = SortOutputs(chunks, chunk_outputs, <<>>)
    /\ synth_input' = Some(chunk_outputs')
    /\ synth_calls' = synth_calls + 1
    /\ pc' = "synthesis"
    /\ UNCHANGED <<unitVars, runVars, MAX_CHUNK_CHARS, chunkerVars, chunks, fut, chunk_result,
                   collected, chunk_calls, call_raised, result>>

\* lines 521-539: the synthesis call raises, or returns a text that is parsed
SynthesisDone ==
    /\ pc = "synthesis"
    /\ \/ /\ pc' = "raised"
          /\ call_raised' = TRUE
          /\ UNCHANGED result
       \/ \E raw \in Raws :
              /\ result' = Some([parsed |-> safe_parse_json(raw), raw |-> raw])
              /\ pc' = "returned"
              /\ UNCHANGED call_raised
    /\ UNCHANGED <<unitVars, runVars, MAX_CHUNK_CHARS, chunkerVars, chunks, fut, chunk_result,
                   collected, chunk_outputs, synth_input, chunk_calls,
                   synth_calls>>

OrchInit ==
    /\ MAX_CHUNK_CHARS \in 1..MaxBudget
    /\ text = <<>>
    /\ sections = <<>>
    /\ chunks = <<>>
    /\ pc = "start"
    /\ OrchIdle
    /\ NoRun
    /\ UnitIdle

OrchNext ==
    \/ Generate
    \/ SingleChunk
    \/ \E i \in Positions : StartChunk(i)
    \/ \E i \in Positions : FinishChunk(i)
    \/ \E i \in Positions : Collect(i)
    \/ Unwound
    \/ Synthesize
    \/ SynthesisDone

SpecOrch == OrchInit /\ [][OrchNext]_vars

----------------------------------------------------------------------------
(* The workflow runner, workflow_runner.py: run_workflow, called by        *)
(* execute_run (routes/runs.py) for one document at a time                  *)

MAX_CORRECTION_ROUNDS == 1

pipelineVars == <<MAX_CHUNK_CHARS, chunkerVars, chunks, orchVars>>

\* runs.py:73-81: a request to run a workflow on document d
ExecuteRun(d) ==
    /\ pc = "idle"
    /\ doc_id' = Some(d)
    /\ pc' = "figures"
    /\ UNCHANGED <<unitVars, pipelineVars, storeVars, figure_descriptions, vision,
                   vision_calls, vision_raised, cache_written, cached_before,
                   parsed, errors, correction_round, all_corrections,
                   correction_calls, fast_validations, grounding>>

\* lines 51-59: with images, the cached descriptions are read and used when
\* there are any; with images and no descriptions the vision fan-out starts
LoadFigures ==
    /\ pc = "figures"
    /\ LET d == doc_id[1]
           cached == IF figures[d] > 0 THEN cache[d] ELSE None
           described == IF cached # None THEN cached[1] ELSE <<>>
       IN  /\ cached_before' = cached
           /\ figure_descriptions' = described
           /\ IF figures[d] > 0 /\ described = <<>>
              THEN /\ pc' = "vision"
                   /\ vision' = [i \in 1..figures[d] |-> "pending"]
              ELSE /\ pc' = "generate"
                   /\ UNCHANGED vision
    /\ UNCHANGED <<unitVars, pipelineVars, storeVars, doc_id, vision_calls,
                   vision_raised, cache_written, parsed, errors,
                   correction_round, all_corrections, correction_calls,
                   fast_validations, grounding>>

\* aoai.py:42-97, _describe_single_figure: the vision call describes the
\* image, or says it is not a figure, or raises; the except clause turns
\* the exception into a description that reports the failure
VisionOutcomes == {"described", "not_a_figure", "failed"}

DescribeFigure(i) ==
    /\ pc = "vision"
    /\ vision[i] = "pending"
    /\ vision_calls' = vision_calls + 1
    /\ \E outcome \in VisionOutcomes :
           /\ vision' = [vision EXCEPT ![i] = outcome]
           /\ vision_raised' = (vision_raised \/ outcome = "failed")
    /\ UNCHANGED <<unitVars, pipelineVars, storeVars, pc, doc_id, figure_descriptions,
                   cache_written, cached_before, parsed, errors,
                   correction_round, all_corrections, correction_calls,
                   fast_validations, grounding>>

\* aoai.py:115-124: the results that are not None, sorted by index
RECURSIVE Descriptions(_, _)
Descriptions(v, i) ==
    IF i > Len(v) THEN <<>>
    ELSE (IF v[i] = "not_a_figure" THEN <<>>
          ELSE <<[index |-> i, description |-> v[i]]>>)
         \o Descriptions(v, i + 1)

\* lines 61-64: the fan-out is over; its descriptions are cached
SaveFigures ==
    /\ pc = "vision"
    /\ \A i \in DOMAIN vision : vision[i] # "pending"
    /\ figure_descriptions' = Descriptions(vision, 1)
    /\ cache' = [cache EXCEPT ![doc_id[1]] = Some(figure_descriptions')]
    /\ cache_written' = TRUE
    /\ pc' = "generate"
    /\ UNCHANGED <<unitVars, pipelineVars, figures, doc_id, vision, vision_calls,
                   vision_raised, cached_before, parsed, errors,
                   correction_round, all_corrections, correction_calls,
                   fast_validations, grounding>>

\* line 78: the result is validated when it is a dict with members
Validated(p) == Truthy(p) /\ p[1] = "object"

\* lines 67-78 and 118-119: generate_structured_output raises (nothing
\* catches it before execute_run), or returns the parsed text of its last
\* LLM call; a result that is not validated gets no grounding report
GenerateOutput ==
    /\ pc = "generate"
    /\ \/ /\ pc' = "failed"
          /\ UNCHANGED parsed
       \/ \E raw \in Raws :
              /\ parsed' = safe_parse_json(raw)
              /\ pc' = IF Validated(parsed') THEN "validate" ELSE "done"
    /\ UNCHANGED <<unitVars, pipelineVars, storeVars, doc_id, figure_descriptions,
                   vision, vision_calls, vision_raised, cache_written,
                   cached_before, errors, correction_round, all_corrections,
                   correction_calls, fast_validations, grounding>>

\* lines 80-84: the first validation, with the semantic judge
Validate ==
    /\ pc = "validate"
    /\ errors' \in 0..MaxErrors
    /\ correction_round' = 0
    /\ all_corrections' = 0
    /\ pc' = "loop"
    /\ UNCHANGED <<unitVars, pipelineVars, storeVars, doc_id, figure_descriptions,
                   vision, vision_calls, vision_raised, cache_written,
                   cached_before, parsed, correction_calls, fast_validations,
                   grounding>>

\* a loop that goes on while errors remain
LoopTest_unbounded ==
    /\ pc = "loop"
    /\ IF errors > 0
       THEN /\ correction_round' = correction_round + 1
            /\ pc' = "correct"
       ELSE /\ pc' = "attach"
            /\ UNCHANGED correction_round
    /\ UNCHANGED <<unitVars, pipelineVars, storeVars, doc_id, figure_descriptions,
                   vision, vision_calls, vision_raised, cache_written,
                   cached_before, parsed, errors, all_corrections,
                   correction_calls, fast_validations, grounding>>

\* lines 85-89: the condition of the while loop
LoopTest ==
    /\ pc = "loop"
    /\ IF errors > 0 /\ correction_round < MAX_CORRECTION_ROUNDS
       THEN /\ correction_round' = correction_round + 1
            /\ pc' = "correct"
       ELSE /\ pc' = "attach"
            /\ UNCHANGED correction_round
    /\ UNCHANGED <<unitVars, pipelineVars, storeVars, doc_id, figure_descriptions,
                   vision, vision_calls, vision_raised, cache_written,
                   cached_before, parsed, errors, all_corrections,
                   correction_calls, fast_validations, grounding>>

\* lines 92-101: correct_ungrounded_claims raises, or returns the
\* corrections it applied; with none the loop is left
Correct ==
    /\ pc = "correct"
    /\ correction_calls' = correction_calls + 1
    /\ \/ /\ pc' = "failed"
          /\ UNCHANGED all_corrections
       \/ \E applied \in 0..MaxErrors :
              /\ all_corrections' = all_corrections + applied
              /\ pc' = IF applied = 0 THEN "attach" ELSE "revalidate"
    /\ UNCHANGED <<unitVars, pipelineVars, storeVars, doc_id, figure_descriptions,
                   vision, vision_calls, vision_raised, cache_written,
                   cached_before, parsed, errors, correction_round,
                   fast_validations, grounding>>

\* line 105: the fast validation of the corrected output
Revalidate ==
    /\ pc = "revalidate"
    /\ fast_validations' = fast_validations + 1
    /\ errors' \in 0..MaxErrors
    /\ pc' = "loop"
    /\ UNCHANGED <<unitVars, pipelineVars, storeVars, doc_id, figure_descriptions,
                   vision, vision_calls, vision_raised, cache_written,
                   cached_before, parsed, correction_round, all_corrections,
                   correction_calls, grounding>>

\* lines 108-117: the correction metadata is attached to the report
Attach ==
    /\ pc = "attach"
    /\ grounding' = Some([errors |-> errors,
                          corrections_applied |-> all_corrections,
                          correction_rounds |->
                              IF all_corrections > 0 THEN correction_round
                              ELSE 0])
    /\ pc' = "done"
    /\ UNCHANGED <<unitVars, pipelineVars, storeVars, doc_id, figure_descriptions,
                   vision, vision_calls, vision_raised, cache_written,
                   cached_before, parsed, errors, correction_round,
                   all_corrections, correction_calls, fast_validations>>

\* runs.py:82-86 and 88-130: the request is answered, with the result or
\* with the error; the locals of the run are gone
Return ==
    /\ pc \in {"done", "failed"}
    /\ pc' = "idle"
    /\ doc_id' = None
    /\ figure_descriptions' = <<>>
    /\ vision' = <<>>
    /\ vision_calls' = 0
    /\ vision_raised' = FALSE
    /\ cache_written' = FALSE
    /\ cached_before' = None
    /\ parsed' = None
    /\ errors' = 0
    /\ correction_round' = 0
    /\ all_corrections' = 0
    /\ correction_calls' = 0
    /\ fast_validations' = 0
    /\ grounding' = None
    /\ UNCHANGED <<unitVars, pipelineVars, storeVars>>

RunInit ==
    /\ MAX_CHUNK_CHARS = MaxBudget
    /\ text = <<>>
    /\ sections = <<>>
    /\ chunks = <<>>
    /\ OrchIdle
    /\ pc = "idle"
    /\ figures \in [DocIds -> 0..MaxImages]
    /\ cache = [d \in DocIds |-> None]
    /\ RunLocalsIdle
    /\ UnitIdle

\* the steps of a run that has started
RunStep ==
    \/ LoadFigures
    \/ \E i \in DOMAIN vision : DescribeFigure(i)
    \/ SaveFigures
    \/ GenerateOutput
    \/ Validate
    \/ LoopTest
    \/ Correct
    \/ Revalidate
    \/ Attach
    \/ Return

RunNext ==
    \/ \E d \in DocIds : ExecuteRun(d)
    \/ RunStep

SpecRun == RunInit /\ [][RunNext]_vars

\* a run that has started goes on: every call returns or raises
SpecRunFair == SpecRun /\ WF_vars(RunStep)

----------------------------------------------------------------------------
(* The chunker on its own: one call of split_into_sections *)

ChunkerInit ==
    /\ MAX_CHUNK_CHARS \in 1..MaxBudget
    /\ text = <<>>
    /\ sections = <<>>
    /\ chunks = <<>>
    /\ pc = "start"
    /\ OrchIdle
    /\ NoRun
    /\ UnitIdle

CallSplit ==
    /\ pc = "start"
    /\ \E t \in Texts(MaxTextLen), secs \in SectionLists(MaxSections, MaxTextLen) :
           /\ text' = t
           /\ sections' = secs
           /\ chunks' = split_into_sections(t, secs, MAX_CHUNK_CHARS)
    /\ pc' = "split"
    /\ UNCHANGED <<unitVars, runVars, MAX_CHUNK_CHARS, orchVars>>

ChunkerNext == CallSplit

SpecChunker == ChunkerInit /\ [][ChunkerNext]_vars

----------------------------------------------------------------------------
(* The grounding validator, grounding.py: validate_grounding.              *)
(*                                                                         *)
(* A value of the structured result is its shape, an identity that tells   *)
(* its content from every other content, and, for a key finding and a      *)
(* supporting quote, what the string layers find when they check it        *)
(* against the source text.                                                *)

MaxClaims == 2
MaxVerdicts == 1

RECURSIVE SeqsUpTo(_, _)
SeqsUpTo(S, n) ==
    IF n = 0 THEN {<<>>}
    ELSE SeqsUpTo(S, n - 1)
         \cup {Append(s, x) : s \in {t \in SeqsUpTo(S, n - 1) : Len(t) = n - 1},
                              x \in S}

\* a key finding is an object whose statistical evidence is not checked
\* (grounded None), found or not found, or it is a string, or neither
FindingKinds ==
    {<<"object", "null">>, <<"object", "true">>, <<"object", "false">>,
     <<"string", "null">>, <<"number", "null">>}

\* a supporting quote is too short to check (grounded None), found or not
QuoteKinds == {"null", "true", "false"}

Findings(n) ==
    {[i \in DOMAIN ks |-> [shape |-> ks[i][1], check |-> ks[i][2], id |-> i]] :
        ks \in SeqsUpTo(FindingKinds, n)}

Quotes(n) ==
    {[i \in DOMAIN ks |-> [shape |-> "string", check |-> ks[i], id |-> 10 + i]] :
        ks \in SeqsUpTo(QuoteKinds, n)}

Events(n, first) ==
    {[i \in 1..k |-> [shape |-> "string", check |-> "null", id |-> first + i]] :
        k \in 0..n}

\* clinical_implications: the empty string, or a text
Implications == {"", "text"}

Size(o) ==
    Len(o.key_findings) + Len(o.supporting_quotes) + Len(o.adverse_events)
    + Len(o.serious_adverse_events)
    + (IF o.clinical_implications = "" THEN 0 ELSE 1)

\* the structured results with at most n values
Outputs(n) ==
    {o \in [key_findings : Findings(n),
            supporting_quotes : Quotes(n),
            adverse_events : Events(n, 20),
            serious_adverse_events : Events(n, 30),
            clinical_implications : Implications] : Size(o) <= n}

\* lines 436-465: the key findings queued for the judge, objects and strings
RECURSIVE FindingClaims(_, _)
FindingClaims(fs, i) ==
    IF i > Len(fs) THEN <<>>
    ELSE (IF fs[i].shape \in {"object", "string"}
          THEN <<[type |-> "key_finding", index |-> i - 1, id |-> fs[i].id]>>
          ELSE <<>>)
         \o FindingClaims(fs, i + 1)

\* lines 432-518: the claims queued for the judge; a safety claim and a
\* clinical implication get their position in the queue as index
claims_for_llm(o) ==
    LET f == FindingClaims(o.key_findings, 1)
        a == [i \in DOMAIN o.adverse_events |->
                 [type |-> "safety_claim", index |-> Len(f) + i - 1,
                  id |-> o.adverse_events[i].id]]
        s == [i \in DOMAIN o.serious_adverse_events |->
                 [type |-> "safety_claim", index |-> Len(f) + Len(a) + i - 1,
                  id |-> o.serious_adverse_events[i].id]]
        c == IF o.clinical_implications # ""
             THEN <<[type |-> "clinical_implication",
                     index |-> Len(f) + Len(a) + Len(s), id |-> 40]>>
             ELSE <<>>
    IN  f \o a \o s \o c

\* lines 443-450: one statistical-evidence result per key finding that is
\* an object
RECURSIVE stat_results(_, _)
stat_results(fs, i) ==
    IF i > Len(fs) THEN <<>>
    ELSE (IF fs[i].shape = "object"
          THEN <<[finding |-> fs[i].id, grounded |-> fs[i].check]>>
          ELSE <<>>)
         \o stat_results(fs, i + 1)

\* lines 288-307 and 470-475: one result per supporting quote
_verify_quotes(qs) ==
    [i \in DOMAIN qs |-> [quote |-> qs[i].id, grounded |-> qs[i].check]]

\* What the judge call does: it raises, or returns a text that is not JSON,
\* or JSON without a list of verdicts, or a list of verdicts (bare, or the
\* first list in the object the call returned).  A verdict is an object
\* with or without its members, or a value that is not an object.
GroundedValues == {"true", "false", "null"}
SeverityValues == {"ok", "warning", "error", "missing", "other"}

Verdicts ==
    [dict : {TRUE}, grounded : GroundedValues, severity : SeverityValues]
    \cup {[dict |-> FALSE, grounded |-> "null", severity |-> "missing"]}

JudgeResponses(n) ==
    {[kind |-> k, verdicts |-> <<>>] : k \in {"raises", "not_json", "no_list"}}
    \cup {[kind |-> "verdicts", verdicts |-> vs] : vs \in SeqsUpTo(Verdicts, n)}

\* a failure of the judge call that leaves the claims without a verdict
FailedVerdicts_none(claims) == <<>>

\* lines 397-398: the verdicts of a judge call that failed
FailedVerdicts(claims) ==
    [i \in DOMAIN claims |->
        [dict |-> TRUE, grounded |-> "null", severity |-> "warning"]]

\* lines 310-398
_verify_claims_with_llm(claims, resp) ==
    IF claims = <<>> THEN <<>>
    ELSE IF resp.kind \in {"raises", "not_json"} THEN FailedVerdicts(claims)
    ELSE IF resp.kind = "verdicts" THEN resp.verdicts
    ELSE <<>>

\* a fast mode that leaves the claims unjudged, as a failed call does
PresumedVerdicts_unjudged(claims) ==
    [i \in DOMAIN claims |->
        [dict |-> TRUE, grounded |-> "null", severity |-> "warning"]]

\* lines 524-527: the verdicts of the fast mode
PresumedVerdicts(claims) ==
    [i \in DOMAIN claims |->
        [dict |-> TRUE, grounded |-> "true", severity |-> "ok"]]

\* lines 521-530
llm_verdicts(o, resp, skip) ==
    IF skip THEN PresumedVerdicts(claims_for_llm(o))
    ELSE _verify_claims_with_llm(claims_for_llm(o), resp)

Min(a, b) == IF a < b THEN a ELSE b

\* lines 536-547: zip(claims_for_llm, llm_verdicts); verdict.get raises on a
\* verdict that is not an object
Zipped(o, resp, skip) == 1..Min(Len(claims_for_llm(o)), Len(llm_verdicts(o, resp, skip)))

ValidateRaises(o, resp, skip) ==
    \E i \in Zipped(o, resp, skip) : ~llm_verdicts(o, resp, skip)[i].dict

all_verdicts(o, resp, skip) ==
    [i \in Zipped(o, resp, skip) |->
        LET claim == claims_for_llm(o)[i]
            verdict == llm_verdicts(o, resp, skip)[i]
        IN  [claim |-> claim.id,
             type |-> claim.type,
             grounded |-> verdict.grounded,
             severity |-> IF verdict.severity = "missing" THEN "warning"
                          ELSE verdict.severity]]

RECURSIVE OfType(_, _)
OfType(vs, t) ==
    IF vs = <<>> THEN <<>>
    ELSE (IF Head(vs).type = t THEN <<Head(vs)>> ELSE <<>>) \o OfType(Tail(vs), t)

\* lines 558-564: what a verdict of the judge counts as
VerdictCount(v) ==
    IF v.severity = "ok" \/ v.grounded = "true" THEN "grounded"
    ELSE IF v.severity = "warning" THEN "warning"
    ELSE IF v.severity = "error" \/ v.grounded = "false" THEN "error"
    ELSE "nothing"

\* lines 566-572
QuoteCount(q) ==
    IF q.grounded = "true" THEN "grounded"
    ELSE IF q.grounded = "false" THEN "error"
    ELSE "warning"

\* lines 575-581
StatCount(s) ==
    IF s.grounded = "true" THEN "grounded"
    ELSE IF s.grounded = "false" THEN "error"
    ELSE "nothing"

RECURSIVE Tally(_, _, _)
Tally(seq, Count(_), what) ==
    IF seq = <<>> THEN 0
    ELSE (IF Count(Head(seq)) = what THEN 1 ELSE 0) + Tally(Tail(seq), Count, what)

\* a count of grounded claims in which a grounded statistical evidence does
\* not add to the total
StatTotal_uncounted(stats) == 0

\* lines 575-581: what the statistical evidence adds to the total
StatTotal(stats) ==
    Tally(stats, StatCount, "grounded") + Tally(stats, StatCount, "error")

\* round(g / t, 2), in hundredths: to the nearest, a tie to the even one
Round2(g, t) ==
    LET q == (100 * g) \div t
        r == (100 * g) % t
    IN  IF 2 * r < t THEN q
        ELSE IF 2 * r > t THEN q + 1
        ELSE IF q % 2 = 0 THEN q ELSE q + 1

\* a status that is partially_grounded only with both conditions
overall_status_both(g, t, e) ==
    IF t > 0 /\ 100 * g >= 85 * t /\ e = 0 THEN "grounded"
    ELSE IF (t > 0 /\ 10 * g >= 6 * t) /\ e <= 1 THEN "partially_grounded"
    ELSE "review_needed"

\* lines 585-590, on the quotient grounded / total that is not rounded
overall_status(g, t, e) ==
    IF t > 0 /\ 100 * g >= 85 * t /\ e = 0 THEN "grounded"
    ELSE IF (t > 0 /\ 10 * g >= 6 * t) \/ e <= 1 THEN "partially_grounded"
    ELSE "review_needed"

\* lines 401-606
validate_grounding(o, resp, skip) ==
    LET verdicts == all_verdicts(o, resp, skip)
        stats == stat_results(o.key_findings, 1)
        quotes == _verify_quotes(o.supporting_quotes)
        total == Len(verdicts) + Len(quotes) + StatTotal(stats)
        grounded_n == Tally(verdicts, VerdictCount, "grounded")
                      + Tally(quotes, QuoteCount, "grounded")
                      + Tally(stats, StatCount, "grounded")
        warnings == Tally(verdicts, VerdictCount, "warning")
                    + Tally(quotes, QuoteCount, "warning")
        errors_n == Tally(verdicts, VerdictCount, "error")
                    + Tally(quotes, QuoteCount, "error")
                    + Tally(stats, StatCount, "error")
    IN  [overall_score |-> IF total > 0 THEN Round2(grounded_n, total) ELSE 0,
         overall_status |-> overall_status(grounded_n, total, errors_n),
         total_claims |-> total,
         grounded_claims |-> grounded_n,
         warnings |-> warnings,
         errors |-> errors_n,
         details |-> [statistical_evidence |-> stats,
                      supporting_quotes |-> quotes,
                      key_findings |-> OfType(verdicts, "key_finding"),
                      safety_claims |-> OfType(verdicts, "safety_claim")]]

\* lines 428-518: validate_grounding is called, in full or in fast mode, and
\* queues the claims for the judge
QueueClaims ==
    /\ pc = "start"
    /\ \E o \in Outputs(MaxClaims), skip \in BOOLEAN :
           /\ output' = Some(o)
           /\ skip_llm' = skip
    /\ pc' = "judge"
    /\ UNCHANGED <<MAX_CHUNK_CHARS, chunkerVars, chunks, orchVars, runVars,
                   judge, judge_calls, report, response, corrected,
                   corrections_applied, matchVars, evidenceVars>>

\* the judge responses a call of validate_grounding can meet: none in fast
\* mode and with no claim queued, where no call is issued
ResponsesFor(o, skip) ==
    IF skip \/ claims_for_llm(o) = <<>>
    THEN {[kind |-> "no_call", verdicts |-> <<>>]}
    ELSE JudgeResponses(MaxVerdicts)

\* lines 520-606: the judge is asked unless the mode is fast, and the report
\* is made; a verdict that is not an object makes validate_grounding raise
JudgeAndReport ==
    /\ pc = "judge"
    /\ \E resp \in ResponsesFor(output[1], skip_llm) :
           /\ judge' = Some(resp)
           /\ judge_calls' = IF resp.kind = "no_call" THEN judge_calls
                             ELSE judge_calls + 1
           /\ IF ValidateRaises(output[1], resp, skip_llm)
              THEN /\ report' = None
                   /\ pc' = "validate_raised"
              ELSE /\ report' = Some(validate_grounding(output[1], resp, skip_llm))
                   /\ pc' = "validated"
    /\ UNCHANGED <<MAX_CHUNK_CHARS, chunkerVars, chunks, orchVars, runVars,
                   output, skip_llm, response, corrected, corrections_applied,
                   matchVars, evidenceVars>>

ValidateInit ==
    /\ MAX_CHUNK_CHARS = MaxBudget
    /\ text = <<>>
    /\ sections = <<>>
    /\ chunks = <<>>
    /\ pc = "start"
    /\ OrchIdle
    /\ NoRun
    /\ UnitIdle

ValidateNext ==
    \/ QueueClaims
    \/ JudgeAndReport

SpecValidate == ValidateInit /\ [][ValidateNext]_vars

----------------------------------------------------------------------------
(* The correction step, grounding.py: correct_ungrounded_claims *)

MaxCorrections == 2

\* lines 621-659: the verdicts v of one list of the report's details that
\* Bad holds of, each with its 0-based position in that list
RECURSIVE Flagged(_, _, _, _, _)
Flagged(vs, t, Bad(_), Claim(_), i) ==
    IF i > Len(vs) THEN <<>>
    ELSE (IF Bad(vs[i])
          THEN <<[type |-> t, index |-> i - 1, claim |-> Claim(vs[i])]>>
          ELSE <<>>)
         \o Flagged(vs, t, Bad, Claim, i + 1)

\* lines 612-661
_collect_ungrounded_claims(r) ==
    LET JudgedBad(v) == v.grounded = "false" \/ v.severity = "error"
        CheckedBad(v) == v.grounded = "false"
        OfClaim(v) == v.claim
        OfQuote(v) == v.quote
        OfFinding(v) == v.finding
    IN  Flagged(r.details.key_findings, "key_finding", JudgedBad, OfClaim, 1)
        \o Flagged(r.details.safety_claims, "safety_claim", JudgedBad, OfClaim, 1)
        \o Flagged(r.details.supporting_quotes, "supporting_quote", CheckedBad,
                   OfQuote, 1)
        \o Flagged(r.details.statistical_evidence, "stat_evidence", CheckedBad,
                   OfFinding, 1)

\* An index of a correction: an integer, or no such member, or a value that
\* is not a number (a string, null)
Number(n) == [is |-> "int", n |-> n]
Missing == [is |-> "missing", n |-> 0]
NotANumber == [is |-> "other", n |-> 0]

Correction(e, a, oi, cv) ==
    [dict |-> TRUE, error_index |-> e, action |-> a, original_index |-> oi,
     corrected_value |-> cv]

\* The corrections the LLM is taken to return: on the first two errors a
\* rewrite, with a string, an object or an array, or a removal, at the index
\* of the claim; corrections whose error_index is missing, not a number or
\* too large; corrections with an original_index of their own, negative,
\* past the claim or not a number; corrections whose action is missing,
\* unknown, or a rewrite without a value; and a correction that is not an
\* object
Corrections ==
    {Correction(Number(1), "correct", Missing, cv) : cv \in {"string", "object", "array"}}
    \cup {Correction(Number(e), "remove", Missing, "null") : e \in 1..2}
    \cup {Correction(Number(2), "correct", Missing, "string")}
    \cup {Correction(e, "remove", Missing, "null") :
             e \in {Missing, NotANumber, Number(MaxClaims + MaxCorrections + 1)}}
    \cup {Correction(Number(1), "remove", oi, "null") :
             oi \in {Number(0 - 1), Number(1), NotANumber}}
    \cup {Correction(Number(1), "correct", oi, "string") :
             oi \in {Number(0 - 1), NotANumber}}
    \cup {Correction(Number(1), a, Missing, "null") : a \in {"missing", "other", "correct"}}
    \cup {[dict |-> FALSE, error_index |-> Missing, action |-> "missing",
           original_index |-> Missing, corrected_value |-> "null"]}

\* What the correction call does: it raises, or returns a text that is not
\* JSON, or JSON that is not an object, or an object without corrections,
\* or with corrections that cannot be iterated (null, a number), or with a
\* list of corrections
CorrectionResponses(n) ==
    {[kind |-> k, corrections |-> <<>>] :
        k \in {"raises", "not_json", "not_object", "no_corrections", "not_a_list"}}
    \cup {[kind |-> "corrections", corrections |-> cs] : cs \in SeqsUpTo(Corrections, n)}

\* the state of the loops of correct_ungrounded_claims: the copy of the
\* output, the applied list, the indices marked for removal, and whether an
\* exception has left the function
Applying(o) ==
    [out |-> o, applied |-> <<>>,
     removal_indices |-> [t \in {"key_finding", "safety_claim",
                                 "supporting_quote", "stat_evidence"} |-> <<>>],
     raised |-> FALSE]

\* the value a rewrite puts in, the k-th correction's
NewValue(shape, k) == [shape |-> shape, check |-> "null", id |-> 90 + k]

\* lines 781-787: a dict is merged into a dict, a string is put into the
\* "finding" of a dict, anything else replaces the key finding
Rewritten(old, shape, k) ==
    IF old.shape = "object" /\ shape \in {"object", "string"}
    THEN NewValue("object", k)
    ELSE NewValue(shape, k)

AppliedEntry(ug, action) == [type |-> ug.type, action |-> action, original |-> ug.claim]

\* lines 776-826: the rewrite of ungrounded claim ug at original_idx; a
\* comparison with an index that is not a number raises TypeError, which
\* the except clause of line 838 catches
Rewrite(st, ug, oi, shape, k) ==
    IF oi.is # "int" THEN st
    ELSE LET n == oi.n
             o == st.out
             done == [st EXCEPT !.applied = Append(@, AppliedEntry(ug, "corrected"))]
         IN  IF ug.type = "key_finding"
             THEN IF 0 <= n /\ n < Len(o.key_findings)
                  THEN [done EXCEPT !.out.key_findings[n + 1] =
                                        Rewritten(@, shape, k)]
                  ELSE st
             ELSE IF ug.type = "supporting_quote"
             THEN IF 0 <= n /\ n < Len(o.supporting_quotes) /\ shape = "string"
                  THEN [done EXCEPT !.out.supporting_quotes[n + 1] =
                                        NewValue("string", k)]
                  ELSE st
             ELSE IF ug.type = "safety_claim"
             THEN IF /\ 0 <= n
                     /\ n < Len(o.adverse_events) + Len(o.serious_adverse_events)
                     /\ shape = "string"
                  THEN IF n < Len(o.adverse_events)
                       THEN [done EXCEPT !.out.adverse_events[n + 1] =
                                             NewValue("string", k)]
                       ELSE [done EXCEPT
                                !.out.serious_adverse_events[n - Len(o.adverse_events) + 1] =
                                    NewValue("string", k)]
                  ELSE st
             ELSE st

\* lines 765-839: one pass of the loop over the corrections, for the k-th
Apply(st, corr, ungrounded, k) ==
    IF ~corr.dict \/ corr.error_index.is = "other"
    THEN [st EXCEPT !.raised = TRUE]
    ELSE LET error_idx == IF corr.error_index.is = "missing" THEN 0 - 1
                          ELSE corr.error_index.n - 1
         IN  IF error_idx < 0 \/ error_idx >= Len(ungrounded) THEN st
             ELSE LET ug == ungrounded[error_idx + 1]
                      action == IF corr.action = "missing" THEN "remove"
                                ELSE corr.action
                      original_idx == IF corr.original_index.is = "missing"
                                      THEN Number(ug.index)
                                      ELSE corr.original_index
                  IN  IF action = "correct" /\ corr.corrected_value # "null"
                      THEN Rewrite(st, ug, original_idx, corr.corrected_value, k)
                      ELSE IF action = "remove"
                      THEN [st EXCEPT
                               !.removal_indices[ug.type] = Append(@, original_idx),
                               !.applied = Append(@, AppliedEntry(ug, "removed"))]
                      ELSE st

RECURSIVE ApplyAll(_, _, _, _)
ApplyAll(st, corrs, ungrounded, k) ==
    IF k > Len(corrs) \/ st.raised THEN st
    ELSE ApplyAll(Apply(st, corrs[k], ungrounded, k), corrs, ungrounded, k + 1)

\* the integers among the indices marked for removal
Ints(indices) ==
    {indices[i].n : i \in {j \in DOMAIN indices : indices[j].is = "int"}}

Max(S) == CHOOSE m \in S : \A x \in S : x <= m

\* list.pop(n) with 0 <= n < len(list)
RemoveAt(list, n) == SubSeq(list, 1, n) \o SubSeq(list, n + 2, Len(list))

\* lines 845-855: the indices in descending order; an index out of range is
\* passed over
RECURSIVE PopInRange(_, _)
PopInRange(list, S) ==
    IF S = {} THEN list
    ELSE LET idx == Max(S)
         IN  PopInRange(IF 0 <= idx /\ idx < Len(list) THEN RemoveAt(list, idx)
                        ELSE list,
                        S \ {idx})

\* lines 856-866: an index under len(ae_list) is popped from ae_list, and
\* list.pop takes a negative index from the end or raises IndexError; any
\* other index is popped from sae_list when it is in its range
RECURSIVE PopSafety(_, _, _)
PopSafety(ae_list, sae_list, S) ==
    IF S = {} THEN [ae |-> ae_list, sae |-> sae_list, raised |-> FALSE]
    ELSE LET idx == Max(S)
             sae_idx == idx - Len(ae_list)
         IN  IF idx < Len(ae_list)
             THEN IF idx >= 0
                  THEN PopSafety(RemoveAt(ae_list, idx), sae_list, S \ {idx})
                  ELSE IF idx + Len(ae_list) >= 0
                  THEN PopSafety(RemoveAt(ae_list, idx + Len(ae_list)), sae_list,
                                 S \ {idx})
                  ELSE [ae |-> ae_list, sae |-> sae_list, raised |-> TRUE]
             ELSE PopSafety(ae_list,
                            IF 0 <= sae_idx /\ sae_idx < Len(sae_list)
                            THEN RemoveAt(sae_list, sae_idx) ELSE sae_list,
                            S \ {idx})

\* lines 845-865: sorted() raises TypeError on indices that are numbers and
\* others, and so does the comparison of an index that is not a number
\* with a length; the statistical evidence has no removal
RemovalRaises(t, indices) ==
    /\ \E i \in DOMAIN indices : indices[i].is # "int"
    /\ Ints(indices) # {} \/ t # "stat_evidence"

\* lines 841-866
Removals(st) ==
    LET marked == st.removal_indices
        o == st.out
        safety == PopSafety(o.adverse_events, o.serious_adverse_events,
                            Ints(marked["safety_claim"]))
    IN  IF \/ \E t \in DOMAIN marked : RemovalRaises(t, marked[t])
           \/ safety.raised
        THEN [st EXCEPT !.raised = TRUE]
        ELSE [st EXCEPT
                 !.out.key_findings = PopInRange(@, Ints(marked["key_finding"])),
                 !.out.supporting_quotes =
                     PopInRange(@, Ints(marked["supporting_quote"])),
                 !.out.adverse_events = safety.ae,
                 !.out.serious_adverse_events = safety.sae]

\* lines 664-872: what correct_ungrounded_claims does with output o, report
\* r and the response of its LLM call: whether it issued the call, whether
\* it raised, and the output and the applied list it returned
correct_ungrounded_claims(o, r, resp) ==
    LET ungrounded == _collect_ungrounded_claims(r)
        unchanged == [called |-> TRUE, raised |-> FALSE, out |-> o, applied |-> <<>>]
    IN  IF ungrounded = <<>> \/ resp.kind = "no_call"
        THEN [unchanged EXCEPT !.called = FALSE]
        ELSE IF resp.kind \in {"raises", "not_json", "not_object"} THEN unchanged
        ELSE IF resp.kind = "not_a_list" THEN [unchanged EXCEPT !.raised = TRUE]
        ELSE LET looped == ApplyAll(Applying(o), resp.corrections, ungrounded, 1)
                 st == IF looped.raised THEN looped ELSE Removals(looped)
             IN  [called |-> TRUE, raised |-> st.raised, out |-> st.out,
                  applied |-> st.applied]

\* one call of correct_ungrounded_claims on the report of a full validation
CallCorrect ==
    /\ pc = "validated"
    /\ ~skip_llm
    /\ \E resp \in IF _collect_ungrounded_claims(report[1]) = <<>>
                    THEN {[kind |-> "no_call", corrections |-> <<>>]}
                    ELSE CorrectionResponses(MaxCorrections) :
           LET res == correct_ungrounded_claims(output[1], report[1], resp)
           IN  /\ response' = IF res.called THEN Some(resp) ELSE None
               /\ IF res.raised
                  THEN /\ pc' = "correct_raised"
                       /\ UNCHANGED <<corrected, corrections_applied>>
                  ELSE /\ pc' = "corrected"
                       /\ corrected' = Some(res.out)
                       /\ corrections_applied' = res.applied
    /\ UNCHANGED <<MAX_CHUNK_CHARS, chunkerVars, chunks, orchVars, runVars,
                   output, judge, skip_llm, judge_calls, report, matchVars,
                   evidenceVars>>

CorrectNext ==
    \/ QueueClaims
    \/ JudgeAndReport
    \/ CallCorrect

SpecCorrect == ValidateInit /\ [][CorrectNext]_vars

----------------------------------------------------------------------------
(* The figure matcher, aoai.py: _match_figures_to_paper.                   *)
(*                                                                         *)
(* The text is looked at only through the matches of the figure-reference  *)
(* pattern, so a text is the sequence of its references: the k-th has      *)
(* offset k - 1 and the text is as long as it has references.  A caption   *)
(* and a description are looked at only through their words, so each is    *)
(* the set of its words.                                                   *)

MaxRefs == 2
MaxPages == 2

\* the words of a caption or of a description: none that counts, or the
\* word "prisma", which is one of the specific keywords of line 229
WordSets == {{}, {"prisma"}}

\* lines 142-153: the references found in a text of at most n references
FigRefs(n) ==
    {[k \in DOMAIN rs |-> [fig_num |-> rs[k][1], caption |-> rs[k][2],
                           offset |-> k - 1]] :
        rs \in SeqsUpTo((1..n) \X WordSets, n)}

\* the figure descriptions of at most n images, in any order: the indices
\* are those of the images, each index once
FigureDescriptions(n) ==
    {fds \in SeqsUpTo([index : 1..n, page : 1..MaxPages, description : WordSets], n) :
        /\ \A i, j \in DOMAIN fds : i # j => fds[i].index # fds[j].index
        /\ \A i \in DOMAIN fds : fds[i].index <= Len(fds)}

\* lines 156-161: the first reference of each figure number
RECURSIVE unique_refs(_, _)
unique_refs(refs, seen_nums) ==
    IF refs = <<>> THEN <<>>
    ELSE IF Head(refs).fig_num \in seen_nums
         THEN unique_refs(Tail(refs), seen_nums)
         ELSE <<Head(refs)>>
              \o unique_refs(Tail(refs), seen_nums \cup {Head(refs).fig_num})

\* sorted(list, key=...): a stable insertion sort by an integer key
RECURSIVE InsertSorted(_, _, _)
InsertSorted(Key(_), x, sorted) ==
    IF sorted = <<>> THEN <<x>>
    ELSE IF Key(x) < Key(Head(sorted)) THEN <<x>> \o sorted
         ELSE <<Head(sorted)>> \o InsertSorted(Key, x, Tail(sorted))

RECURSIVE SortedBy(_, _, _)
SortedBy(Key(_), list, sorted) ==
    IF list = <<>> THEN sorted
    ELSE SortedBy(Key, Tail(list), InsertSorted(Key, Head(list), sorted))

\* images left in the order they were supplied in
sorted_images_unsorted(fds) == fds

\* line 176: by (page, index); the indices are at most len(fds)
sorted_images(fds) ==
    LET Key(x) == x.page * (Len(fds) + 1) + x.index
    IN  SortedBy(Key, fds, <<>>)

\* line 177: by figure number
sorted_refs(refs) ==
    LET Key(x) == x.fig_num
    IN  SortedBy(Key, unique_refs(refs, {}), <<>>)

\* f"Fig. {n}" and f"Image from Page {p}"
FigLabel(n) == "Fig. " \o ToString(n)
PageLabel(p) == "Image from Page " \o ToString(p)

Matched(label, img) ==
    [label |-> label, page |-> img.page, description |-> img.description]

\* round(a / b): to the nearest integer, a tie to the even one
RoundHalfEven(a, b) ==
    LET q == a \div b
        r == a % b
    IN  IF 2 * r < b THEN q
        ELSE IF 2 * r > b THEN q + 1
        ELSE IF q % 2 = 0 THEN q ELSE q + 1

MaxOf(S) == CHOOSE m \in S : \A x \in S : x <= m

\* lines 198-201: the page a reference is estimated to be on
est_page(ref, refs, fds) ==
    LET total_len == IF Len(refs) > 1 THEN Len(refs) ELSE 1
        max_page == MaxOf({fds[i].page : i \in DOMAIN fds})
        page == RoundHalfEven(ref.offset * max_page, total_len)
    IN  IF page > 1 THEN page ELSE 1

\* lines 203-239, in tenths: the page distance gives 3.0, 1.5 or 0.1; each
\* word of the caption that is in the description gives 0.5; "prisma" in
\* both gives 2.0
_match_score(img, ref, refs, fds) ==
    LET dist == img.page - est_page(ref, refs, fds)
        page_dist == IF dist < 0 THEN 0 - dist ELSE dist
    IN  (IF page_dist = 0 THEN 30 ELSE IF page_dist = 1 THEN 15 ELSE 1)
        + 5 * Cardinality(ref.caption \cap img.description)
        + (IF "prisma" \in ref.caption /\ "prisma" \in img.description
           THEN 20 ELSE 0)

\* lines 247-250: the scores of all pairs, image by image
RECURSIVE ScoreMatrix(_, _, _, _, _, _)
ScoreMatrix(imgs, srefs, refs, fds, i, j) ==
    IF i > Len(imgs) THEN <<>>
    ELSE IF j > Len(srefs) THEN ScoreMatrix(imgs, srefs, refs, fds, i + 1, 1)
    ELSE <<[i |-> i, j |-> j,
            score |-> _match_score(imgs[i], srefs[j], refs, fds)]>>
         \o ScoreMatrix(imgs, srefs, refs, fds, i, j + 1)

\* pairs taken in the order of the score matrix
scores_unsorted(refs, fds) ==
    ScoreMatrix(sorted_images(fds), sorted_refs(refs), refs, fds, 1, 1)

\* line 253: the pairs by descending score
scores(refs, fds) ==
    LET Key(x) == 0 - x.score
    IN  SortedBy(Key,
                 ScoreMatrix(sorted_images(fds), sorted_refs(refs), refs, fds, 1, 1),
                 <<>>)

\* lines 255-260: the pairs assigned, in the order of their assignment
RECURSIVE Assign(_, _, _, _)
Assign(pairs, used_images, used_refs, assigned) ==
    IF pairs = <<>> THEN assigned
    ELSE LET p == Head(pairs)
         IN  IF p.i \notin used_images /\ p.j \notin used_refs
             THEN Assign(Tail(pairs), used_images \cup {p.i}, used_refs \cup {p.j},
                         Append(assigned, p))
             ELSE Assign(Tail(pairs), used_images, used_refs, assigned)

assignments(refs, fds) == Assign(scores(refs, fds), {}, {}, <<>>)

\* lines 131-281
_match_figures_to_paper(refs, fds) ==
    LET imgs == sorted_images(fds)
        srefs == sorted_refs(refs)
        assigned == assignments(refs, fds)
    IN  IF fds = <<>> THEN <<>>
        ELSE IF srefs = <<>>
        THEN [k \in DOMAIN fds |-> Matched(PageLabel(fds[k].page), fds[k])]
        ELSE IF Len(imgs) = Len(srefs)
        THEN [k \in DOMAIN imgs |-> Matched(FigLabel(srefs[k].fig_num), imgs[k])]
        ELSE [k \in DOMAIN imgs |->
                 IF \E a \in DOMAIN assigned : assigned[a].i = k
                 THEN LET a == CHOOSE a \in DOMAIN assigned : assigned[a].i = k
                      IN  Matched(FigLabel(srefs[assigned[a].j].fig_num), imgs[k])
                 ELSE Matched(PageLabel(imgs[k].page), imgs[k])]

\* lines 142-161: the references of the text are found
FindReferences ==
    /\ pc = "start"
    /\ fig_refs' \in FigRefs(MaxRefs)
    /\ pc' = "references"
    /\ UNCHANGED <<MAX_CHUNK_CHARS, chunkerVars, chunks, orchVars, runVars,
                   groundVars, evidenceVars, images, matched, returned_figures>>

\* lines 163-281: the images are paired with the references
MatchFigures ==
    /\ pc = "references"
    /\ \E fds \in FigureDescriptions(MaxImages) :
           /\ images' = fds
           /\ matched' = Some(_match_figures_to_paper(fig_refs, fds))
    /\ pc' = "matched"
    /\ UNCHANGED <<MAX_CHUNK_CHARS, chunkerVars, chunks, orchVars, runVars,
                   groundVars, evidenceVars, fig_refs, returned_figures>>

\* a run that put the matched figures into its result
result_figure_descriptions_matched(fds, matched_fds) == matched_fds

\* workflow_runner.py:67-75: the descriptions given to
\* generate_structured_output are what the result holds; matched_fds is a
\* local of _generate_with_chunking (aoai.py:398-408), used for the text
result_figure_descriptions(fds, matched_fds) == fds

\* workflow_runner.py:75: result["figure_descriptions"] is set once
\* generate_structured_output, and the matching in it, has returned
ReturnFigures ==
    /\ pc = "matched"
    /\ returned_figures' = Some(result_figure_descriptions(images, matched[1]))
    /\ pc' = "figures_returned"
    /\ UNCHANGED <<MAX_CHUNK_CHARS, chunkerVars, chunks, orchVars, runVars,
                   groundVars, evidenceVars, fig_refs, images, matched>>

MatchNext ==
    \/ FindReferences
    \/ MatchFigures
    \/ ReturnFigures

SpecMatch == ValidateInit /\ [][MatchNext]_vars

----------------------------------------------------------------------------
(* Layers 1 and 2 of the grounding validator, grounding.py: the statistical *)
(* evidence and the supporting quotes, on texts that are strings            *)

Char(s, i) == SubSeq(s, i, i)

DigitChars == {"0", "1", "2", "3", "4", "5", "6", "7", "8", "9"}

\* [\d.], [\d,], \s, and the classes between the two bounds of an interval
NumChars == DigitChars \cup {"."}
CountChars == DigitChars \cup {","}
WhiteChars == {" ", "\n", "\t"}

UpperCase == "ABCDEFGHIJKLMNOPQRSTUVWXYZ"
LowerCase == "abcdefghijklmnopqrstuvwxyz"

LowerChar(c) ==
    IF \E k \in 1..26 : Char(UpperCase, k) = c
    THEN Char(LowerCase, CHOOSE k \in 1..26 : Char(UpperCase, k) = c)
    ELSE c

UpperChar(c) ==
    IF \E k \in 1..26 : Char(LowerCase, k) = c
    THEN Char(UpperCase, CHOOSE k \in 1..26 : Char(LowerCase, k) = c)
    ELSE c

\* str.lower(), str.upper()
RECURSIVE lower(_)
lower(s) == IF s = "" THEN "" ELSE LowerChar(Head(s)) \o lower(Tail(s))

RECURSIVE upper(_)
upper(s) == IF s = "" THEN "" ELSE UpperChar(Head(s)) \o upper(Tail(s))

\* t in s
Contains(s, t) ==
    \E i \in 1..(Len(s) - Len(t) + 1) : SubSeq(s, i, i + Len(t) - 1) = t

\* whether s has the word w at position i, whatever the case (re.IGNORECASE)
HasAt(s, i, w) ==
    /\ i >= 1
    /\ i + Len(w) - 1 <= Len(s)
    /\ lower(SubSeq(s, i, i + Len(w) - 1)) = w

\* the position after the longest run of characters of C that starts at i
RECURSIVE RunEnd(_, _, _)
RunEnd(s, i, C) ==
    IF i <= Len(s) /\ Char(s, i) \in C THEN RunEnd(s, i + 1, C) ELSE i

\* the characters of s that are not in C
RECURSIVE Remove(_, _)
Remove(s, C) ==
    IF s = "" THEN ""
    ELSE (IF Head(s) \in C THEN "" ELSE Head(s)) \o Remove(Tail(s), C)

\* str.strip() and re.sub(r"\s+", " ", text) of a string
RECURSIVE lstrip_str(_)
lstrip_str(s) ==
    IF s # "" /\ Head(s) \in WhiteChars THEN lstrip_str(Tail(s)) ELSE s

RECURSIVE rstrip_str(_)
rstrip_str(s) ==
    IF s # "" /\ Char(s, Len(s)) \in WhiteChars
    THEN rstrip_str(SubSeq(s, 1, Len(s) - 1)) ELSE s

strip_str(s) == rstrip_str(lstrip_str(s))

RECURSIVE CollapseWhite(_, _)
CollapseWhite(s, i) ==
    IF i > Len(s) THEN ""
    ELSE IF Char(s, i) \in WhiteChars
         THEN " " \o CollapseWhite(s, RunEnd(s, i, WhiteChars))
         ELSE Char(s, i) \o CollapseWhite(s, i + 1)

\* lines 40-49; the texts are ASCII and hold none of the dash variants and
\* no minus sign that lines 44 and 46 replace
_normalize(t) == strip_str(CollapseWhite(lower(t), 1))

\* a value of _extract_key_values; the members a type does not have are ""
KeyValue(type, name, operator, value, low, high, unit) ==
    [type |-> type, name |-> name, operator |-> operator, value |-> value,
     low |-> low, high |-> high, unit |-> unit]

\* a match of a pattern: the position after it and the value it gives
Match(after, kv) == [after |-> after, kv |-> kv]

\* the number [\d.]+ at i, after white space: where it starts and ends
NumberAt(s, i) ==
    LET from == RunEnd(s, i, WhiteChars)
    IN  [from |-> from, to |-> RunEnd(s, from, NumChars)]

\* line 66: (HR|RR|OR)\s*(?:=|is|of|:)\s*([\d.]+)
MetricAt(s, i) ==
    IF ~(\E w \in {"hr", "rr", "or"} : HasAt(s, i, w)) THEN None
    ELSE LET j == RunEnd(s, i + 2, WhiteChars)
             k == IF HasAt(s, j, "=") \/ HasAt(s, j, ":") THEN j + 1
                  ELSE IF HasAt(s, j, "is") \/ HasAt(s, j, "of") THEN j + 2
                  ELSE 0
             n == NumberAt(s, k)
         IN  IF k = 0 \/ n.to = n.from THEN None
             ELSE Some(Match(n.to, KeyValue("metric", upper(SubSeq(s, i, i + 1)), "",
                                            SubSeq(s, n.from, n.to - 1), "", "", "")))

\* line 70: p\s*([<>=]+)\s*([\d.]+)
PValueAt(s, i) ==
    IF ~HasAt(s, i, "p") THEN None
    ELSE LET j == RunEnd(s, i + 1, WhiteChars)
             k == RunEnd(s, j, {"<", ">", "="})
             n == NumberAt(s, k)
         IN  IF k = j \/ n.to = n.from THEN None
             ELSE Some(Match(n.to, KeyValue("p_value", "", SubSeq(s, j, k - 1),
                                            SubSeq(s, n.from, n.to - 1), "", "", "")))

\* lines 75-78: CI[:\s]*([\d.]+)\s*[-,\s]+\s*([\d.]+)
CIAt(s, i) ==
    IF ~HasAt(s, i, "ci") THEN None
    ELSE LET a == RunEnd(s, i + 2, WhiteChars \cup {":"})
             b == RunEnd(s, a, NumChars)
             c == RunEnd(s, b, WhiteChars \cup {"-", ","})
             d == RunEnd(s, c, NumChars)
         IN  IF b = a \/ c = b \/ d = c THEN None
             ELSE Some(Match(d, KeyValue("ci", "", "", "", SubSeq(s, a, b - 1),
                                         SubSeq(s, c, d - 1), "")))

\* line 82: [\[(]([\d.]+)\s*[,\s]\s*([\d.]+)[\])]
BracketAt(s, i) ==
    IF ~(i <= Len(s) /\ Char(s, i) \in {"[", "("}) THEN None
    ELSE LET a == i + 1
             b == RunEnd(s, a, NumChars)
             c == RunEnd(s, b, WhiteChars \cup {","})
             d == RunEnd(s, c, NumChars)
             commas == Len(SubSeq(s, b, c - 1)) - Len(Remove(SubSeq(s, b, c - 1), {","}))
         IN  IF \/ b = a \/ c = b \/ d = c
                \/ commas > 1
                \/ ~(d <= Len(s) /\ Char(s, d) \in {"]", ")"})
             THEN None
             ELSE Some(Match(d + 1, KeyValue("ci_bracket", "", "", "",
                                             SubSeq(s, a, b - 1), SubSeq(s, c, d - 1), "")))

\* line 86: ([\d.]+)\s*%
PercentAt(s, i) ==
    LET b == RunEnd(s, i, NumChars)
        c == RunEnd(s, b, WhiteChars)
    IN  IF b = i \/ ~HasAt(s, c, "%") THEN None
        ELSE Some(Match(c + 1, KeyValue("percent", "", "", SubSeq(s, i, b - 1), "", "", "")))

\* line 90: [Nn]\s*=\s*([\d,]+)
NValueAt(s, i) ==
    IF ~HasAt(s, i, "n") THEN None
    ELSE LET j == RunEnd(s, i + 1, WhiteChars)
             a == RunEnd(s, j + 1, WhiteChars)
             b == RunEnd(s, a, CountChars)
         IN  IF ~HasAt(s, j, "=") \/ b = a THEN None
             ELSE Some(Match(b, KeyValue("n_value", "", "",
                                         Remove(SubSeq(s, a, b - 1), {","}), "", "", "")))

\* the first of the words ws that s has at i, or ""
RECURSIVE FirstWordAt(_, _, _)
FirstWordAt(s, i, ws) ==
    IF ws = <<>> THEN ""
    ELSE IF HasAt(s, i, Head(ws)) THEN SubSeq(s, i, i + Len(Head(ws)) - 1)
    ELSE FirstWordAt(s, i, Tail(ws))

\* line 94: ([\d.]+)\s*(months?|years?|weeks?)
DurationAt(s, i) ==
    LET b == RunEnd(s, i, NumChars)
        c == RunEnd(s, b, WhiteChars)
        unit == FirstWordAt(s, c, <<"months", "month", "years", "year", "weeks", "week">>)
    IN  IF b = i \/ unit = "" THEN None
        ELSE Some(Match(c + Len(unit), KeyValue("duration", "", "", SubSeq(s, i, b - 1),
                                                "", "", lower(unit))))

\* line 98: ([\d.]+)\s*(Gy|mg/?m[2]?)
DosageAt(s, i) ==
    LET b == RunEnd(s, i, NumChars)
        c == RunEnd(s, b, WhiteChars)
        unit == FirstWordAt(s, c, <<"gy", "mg/m2", "mg/m", "mgm2", "mgm">>)
    IN  IF b = i \/ unit = "" THEN None
        ELSE Some(Match(c + Len(unit), KeyValue("dosage", "", "", SubSeq(s, i, b - 1),
                                                "", "", unit)))

PatternAt(type, s, i) ==
    IF type = "metric" THEN MetricAt(s, i)
    ELSE IF type = "p_value" THEN PValueAt(s, i)
    ELSE IF type = "ci" THEN CIAt(s, i)
    ELSE IF type = "ci_bracket" THEN BracketAt(s, i)
    ELSE IF type = "percent" THEN PercentAt(s, i)
    ELSE IF type = "n_value" THEN NValueAt(s, i)
    ELSE IF type = "duration" THEN DurationAt(s, i)
    ELSE DosageAt(s, i)

\* re.finditer: the matches of a pattern from left to right, none of them
\* overlapping another; m is what the pattern matches at i
RECURSIVE finditer(_, _, _)
matches_from(type, s, i, m) ==
    IF m = None THEN finditer(type, s, i + 1)
    ELSE <<m[1].kv>> \o finditer(type, s, m[1].after)

finditer(type, s, i) ==
    IF i > Len(s) THEN <<>>
    ELSE matches_from(type, s, i, PatternAt(type, s, i))

\* the values of each pattern in turn, in the order of lines 66-98
RECURSIVE values_of(_, _)
values_of(types, t) ==
    IF types = <<>> THEN <<>>
    ELSE finditer(Head(types), t, 1) \o values_of(Tail(types), t)

\* lines 52-101
_extract_key_values(t) ==
    values_of(<<"metric", "p_value", "ci", "ci_bracket", "percent", "n_value",
                "duration", "dosage">>, t)

\* lines 152-160
_find_value_in_source(value, source_norm) ==
    \/ Contains(source_norm, value)
    \/ /\ Len(value) >= 2
       /\ SubSeq(value, 1, 2) = "0."
       /\ Contains(source_norm, Tail(value))

\* int() of a string of digits
RECURSIVE DigitsValue(_)
DigitsValue(s) ==
    IF s = "" THEN 0
    ELSE 10 * DigitsValue(SubSeq(s, 1, Len(s) - 1))
         + (CHOOSE d \in 0..9 : ToString(d) = Char(s, Len(s)))

RECURSIVE Pow10(_)
Pow10(n) == IF n = 0 THEN 1 ELSE 10 * Pow10(n - 1)

\* float() of a string of digits and dots: the number in millionths, or
\* None where float() raises ValueError (no digit, or more than one dot).
\* The numbers of the texts have at most six decimals.
float(v) ==
    LET digits == Remove(v, {"."})
        dots == Len(v) - Len(digits)
        point == RunEnd(v, 1, DigitChars)
        decimals == IF dots = 0 THEN 0 ELSE Len(v) - point
    IN  IF digits = "" \/ dots > 1 THEN None
        ELSE Some(DigitsValue(digits) * Pow10(6 - decimals))

\* lines 186-199: what the source holds, by type
source_metrics(source_values) ==
    {<<source_values[i].name, source_values[i].value>> :
        i \in {j \in DOMAIN source_values : source_values[j].type = "metric"}}

source_ci_bounds(source_values) ==
    UNION {{source_values[i].low, source_values[i].high} :
              i \in {j \in DOMAIN source_values :
                        source_values[j].type \in {"ci", "ci_bracket"}}}

source_p_values(source_values) ==
    {source_values[i].value :
        i \in {j \in DOMAIN source_values : source_values[j].type = "p_value"}}

\* lines 206-264: the label of a claimed value
label(cv) ==
    IF cv.type = "metric" THEN cv.name \o "=" \o cv.value
    ELSE IF cv.type = "ci" THEN "CI " \o cv.low \o "-" \o cv.high
    ELSE IF cv.type = "ci_bracket" THEN "[" \o cv.low \o ", " \o cv.high \o "]"
    ELSE IF cv.type = "p_value" THEN "p" \o cv.operator \o cv.value
    ELSE IF cv.type = "percent" THEN cv.value \o "%"
    ELSE IF cv.type = "n_value" THEN "N=" \o cv.value
    ELSE cv.value \o " " \o cv.unit

\* lines 233-246: a p-value of the source that parses as a number matches
\* a claimed "<" or "<=" when it is at most the claimed number, and a
\* claimed "=" when it is less than 0.001 away from it (in exact arithmetic;
\* the numbers of the texts are not 0.001 apart)
p_value_matches(cv, source_values) ==
    \E sp \in source_p_values(source_values) :
        /\ float(sp) # None
        /\ LET source_p == float(sp)[1]
               claim_p == float(cv.value)[1]
           IN  \/ cv.operator \in {"<", "<="} /\ source_p <= claim_p
               \/ /\ cv.operator = "="
                  /\ source_p - claim_p < 1000
                  /\ claim_p - source_p < 1000

\* lines 205-265: whether a claimed value is found; line 232 raises
\* ValueError for a claimed p-value that float() does not take
is_found(cv, source_values, source_norm) ==
    IF cv.type = "metric"
    THEN \/ <<cv.name, cv.value>> \in source_metrics(source_values)
         \/ /\ _find_value_in_source(cv.value, source_norm)
            /\ Contains(source_norm, lower(cv.name))
    ELSE IF cv.type \in {"ci", "ci_bracket"}
    THEN /\ \/ cv.low \in source_ci_bounds(source_values)
            \/ _find_value_in_source(cv.low, source_norm)
         /\ \/ cv.high \in source_ci_bounds(source_values)
            \/ _find_value_in_source(cv.high, source_norm)
    ELSE IF cv.type = "p_value"
    THEN \/ p_value_matches(cv, source_values)
         \/ _find_value_in_source(cv.value, source_norm)
    ELSE _find_value_in_source(cv.value, source_norm)

\* list(dict.fromkeys(labels)): each label once, in the order of its first
\* occurrence
RECURSIVE Deduplicate(_, _)
Deduplicate(labels, seen) ==
    IF labels = <<>> THEN <<>>
    ELSE IF Head(labels) \in seen THEN Deduplicate(Tail(labels), seen)
    ELSE <<Head(labels)>> \o Deduplicate(Tail(labels), seen \cup {Head(labels)})

\* the labels of the claimed values that are found (or are not)
RECURSIVE Labels_of(_, _, _, _)
Labels_of(claim_values, source_values, source_norm, wanted) ==
    IF claim_values = <<>> THEN <<>>
    ELSE (IF is_found(Head(claim_values), source_values, source_norm) = wanted
          THEN <<label(Head(claim_values))>> ELSE <<>>)
         \o Labels_of(Tail(claim_values), source_values, source_norm, wanted)

\* lines 275-285: the score in hundredths and the verdict, grounded when at
\* least half of the labels are found (STAT_MATCH_THRESHOLD = 0.50). The
\* record keeps the two extractions of lines 170 and 175 beside what is
\* returned
stat_score(claim_values, source_values, found, missing) ==
    [raised |-> FALSE,
     grounded |-> IF 2 * Len(found) >= Len(found) + Len(missing)
                  THEN "true" ELSE "false",
     score |-> Round2(Len(found), Len(found) + Len(missing)),
     found |-> found, missing |-> missing,
     claim_values |-> claim_values, source_values |-> source_values]

\* lines 171-273: nothing to verify, or ValueError at line 232, or the
\* labels found and missing, each of them once
stat_labels(claim_values, source_values, source_norm) ==
    IF claim_values = <<>>
    THEN [raised |-> FALSE, grounded |-> "null", score |-> 0,
          found |-> <<>>, missing |-> <<>>,
          claim_values |-> claim_values, source_values |-> source_values]
    ELSE IF \E i \in DOMAIN claim_values :
                /\ claim_values[i].type = "p_value"
                /\ float(claim_values[i].value) = None
    THEN [raised |-> TRUE, grounded |-> "null", score |-> 0,
          found |-> <<>>, missing |-> <<>>,
          claim_values |-> claim_values, source_values |-> source_values]
    ELSE stat_score(claim_values, source_values,
                    Deduplicate(Labels_of(claim_values, source_values, source_norm, TRUE), {}),
                    Deduplicate(Labels_of(claim_values, source_values, source_norm, FALSE), {}))

\* lines 163-285
_verify_stat_evidence(stat_text, source) ==
    stat_labels(_extract_key_values(stat_text), _extract_key_values(source),
                _normalize(source))

\* str.split(): the words of a text
RECURSIVE split(_, _)
split(s, i) ==
    LET from == RunEnd(s, i, WhiteChars)
        to == RunEnd(s, from, {Char(s, k) : k \in 1..Len(s)} \ WhiteChars)
    IN  IF from > Len(s) THEN <<>>
        ELSE <<SubSeq(s, from, to - 1)>> \o split(s, to)

\* " ".join(words)
RECURSIVE join(_)
join(words) ==
    IF words = <<>> THEN ""
    ELSE IF Len(words) = 1 THEN words[1]
    ELSE words[1] \o " " \o join(Tail(words))

\* the length of the longest common run of a from i and of b from j, within
\* a[..ahi] and b[..bhi]
RECURSIVE CommonRun(_, _, _, _, _, _)
CommonRun(a, i, ahi, b, j, bhi) ==
    IF i > ahi \/ j > bhi \/ Char(a, i) # Char(b, j) THEN 0
    ELSE 1 + CommonRun(a, i + 1, ahi, b, j + 1, bhi)

\* the least number of a set
Least(S) == CHOOSE m \in S : \A x \in S : m <= x

\* difflib, SequenceMatcher.find_longest_match (no junk: the texts are
\* shorter than the 200 characters from which autojunk sets in): of the
\* longest common blocks the one that starts earliest in a, and of those
\* the one that starts earliest in b, as <<i, j, size>>
find_longest_match(a, alo, ahi, b, blo, bhi) ==
    LET run == [i \in alo..ahi, j \in blo..bhi |-> CommonRun(a, i, ahi, b, j, bhi)]
        size == MaxOf({run[p] : p \in DOMAIN run})
        i == Least({p[1] : p \in {q \in DOMAIN run : run[q] = size}})
        j == Least({p[2] : p \in {q \in DOMAIN run : run[q] = size /\ q[1] = i}})
    IN  IF size = 0 THEN <<alo, blo, 0>> ELSE <<i, j, size>>

\* SequenceMatcher.get_matching_blocks: the characters matched, the longest
\* block and then what matches left of it and right of it
RECURSIVE Matched_chars(_, _, _, _, _, _)
Matched_chars(a, alo, ahi, b, blo, bhi) ==
    IF alo > ahi \/ blo > bhi THEN 0
    ELSE LET m == find_longest_match(a, alo, ahi, b, blo, bhi)
         IN  IF m[3] = 0 THEN 0
             ELSE m[3]
                  + Matched_chars(a, alo, m[1] - 1, b, blo, m[2] - 1)
                  + Matched_chars(a, m[1] + m[3], ahi, b, m[2] + m[3], bhi)

\* a ratio, as a fraction
Ratio(num, den) == [num |-> num, den |-> den]
Reaches(r, num, den) == r.num * den >= num * r.den
Larger(r, q) == IF r.num * q.den > q.num * r.den THEN r ELSE q

\* SequenceMatcher(None, a, b).ratio()
ratio(a, b) ==
    IF Len(a) + Len(b) = 0 THEN Ratio(1, 1)
    ELSE Ratio(2 * Matched_chars(a, 1, Len(a), b, 1, Len(b)), Len(a) + Len(b))

stop_words ==
    {"the", "a", "an", "is", "are", "was", "were", "of", "in", "to", "and",
     "for", "with", "that", "this", "by"}

\* line 124
content_words(sub_norm) ==
    SelectSeq(split(sub_norm, 1), LAMBDA w : w \notin stop_words /\ Len(w) > 2)

\* lines 126-127: the content words of the quote that are in the source,
\* out of all of them
word_ratio(source_norm, sub_norm) ==
    LET ws == content_words(sub_norm)
    IN  Ratio(Cardinality({k \in DOMAIN ws : Contains(source_norm, ws[k])}), Len(ws))

\* line 129: word_ratio >= 0.85
coverage_accepts(r) == Reaches(r, 85, 100)

\* lines 142-147: the windows of one size, every second one; the result is
\* the first ratio that reaches the threshold (match TRUE), or the best
RECURSIVE Windows(_, _, _, _, _)
Windows(words, sub_norm, win_size, i, best) ==
    IF i >= (IF Len(words) - win_size + 1 > 1 THEN Len(words) - win_size + 1 ELSE 1)
    THEN [match |-> FALSE, ratio |-> best]
    ELSE LET window == join(SubSeq(words, i + 1,
                                   IF i + win_size < Len(words) THEN i + win_size
                                   ELSE Len(words)))
             r == ratio(sub_norm, window)
         IN  IF Reaches(r, 6, 10) THEN [match |-> TRUE, ratio |-> r]
             ELSE Windows(words, sub_norm, win_size, i + 2, Larger(r, best))

\* lines 137-140: the window sizes, from two words less than the quote to
\* three words more; w is the result of the windows of one size
RECURSIVE Sizes(_, _, _, _)
next_size(words, sub_norm, size_offset, w) ==
    IF w.match THEN w ELSE Sizes(words, sub_norm, size_offset + 1, w.ratio)

in_range(win_size, words) == ~(win_size < 3 \/ win_size > Len(words))

Sizes(words, sub_norm, size_offset, best) ==
    IF size_offset > 3 THEN [match |-> FALSE, ratio |-> best]
    ELSE IF ~in_range(Len(split(sub_norm, 1)) + size_offset, words)
    THEN Sizes(words, sub_norm, size_offset + 1, best)
    ELSE next_size(words, sub_norm, size_offset,
                   Windows(words, sub_norm, Len(split(sub_norm, 1)) + size_offset,
                           0, best))

\* lines 132-149: Strategy 2 and, when no window reaches the threshold,
\* the comparison of the best ratio with it
window_step(windows) ==
    IF windows.match
    THEN [match |-> TRUE, ratio |-> windows.ratio, step |-> "window"]
    ELSE [match |-> Reaches(windows.ratio, 6, 10), ratio |-> windows.ratio,
          step |-> "best"]

\* lines 121-130: Strategy 1, the coverage of the content words
coverage_step(source_norm, sub_norm, coverage, has_words) ==
    IF has_words /\ coverage_accepts(coverage)
    THEN [match |-> TRUE, ratio |-> coverage, step |-> "coverage"]
    ELSE window_step(Sizes(split(source_norm, 1), sub_norm, 0 - 2,
                           IF has_words THEN coverage ELSE Ratio(0, 1)))

\* lines 112-117: the exact substring, and the empty quote
exact_step(source_norm, sub_norm) ==
    IF Contains(source_norm, sub_norm)
    THEN [match |-> TRUE, ratio |-> Ratio(1, 1), step |-> "exact"]
    ELSE IF sub_norm = ""
    THEN [match |-> FALSE, ratio |-> Ratio(0, 1), step |-> "empty"]
    ELSE coverage_step(source_norm, sub_norm, word_ratio(source_norm, sub_norm),
                       content_words(sub_norm) # <<>>)

\* lines 104-149, with QUOTE_SIMILARITY_THRESHOLD = 0.60: whether the quote
\* is found, with what ratio, and at which step
_fuzzy_contains(source, substring) ==
    exact_step(_normalize(source), _normalize(substring))

\* lines 299-304: the entry of a quote that is checked
quote_entry(f) ==
    [grounded |-> IF f.match THEN "true" ELSE "false",
     score |-> Round2(f.ratio.num, f.ratio.den),
     step |-> f.step]

\* lines 288-307: the verdict of one quote; a quote of fewer than ten
\* characters is not checked
verify_quote(quote, source) ==
    IF Len(strip_str(quote)) < 10
    THEN [grounded |-> "null", score |-> 0, step |-> "too_short"]
    ELSE quote_entry(_fuzzy_contains(source, quote))

----------------------------------------------------------------------------
(* One call of _verify_stat_evidence, or the check of one supporting quote
   by _verify_quotes, on a source text: the calls of validate_grounding,
   grounding.py lines 443 and 472 *)

\* source texts that report a result: how the ratio, the interval and the
\* p-value are written
SourceMetrics == {"hazard ratio of 0.64", "HR of 0.70"}
SourceIntervals == {" (95% CI: 0.58 to 0.71)", " (95% CI 0.58-0.71)"}
SourcePValues == {", p<0.001", ", p=0.01", ", P < 0.00001", ", p=0.01."}
StatSources == {m \o c \o p : m \in SourceMetrics, c \in SourceIntervals,
                               p \in SourcePValues}

\* statistical evidence of a key finding: a ratio, an interval and a p-value,
\* each of them optional
EvidenceMetrics == {"HR=0.64", ""}
EvidenceIntervals == {"95% CI 0.58-0.71", ""}
EvidencePValues == {"p<0.001", "p=0.05", "p<0.05", "p>0.05", "p<=0.05",
                    "p<0.05.", ""}
CommaList(a, b) == IF a = "" THEN b ELSE IF b = "" THEN a ELSE a \o ", " \o b
StatEvidences == {CommaList(CommaList(m, c), p) :
                      m \in EvidenceMetrics, c \in EvidenceIntervals,
                      p \in EvidencePValues} \ {""}

\* source texts and supporting quotes
QuoteSources == {"a significant improvement in overall sur- vival was observed",
                 "a significant improvement in overall survival was observed",
                 "patients were randomly assigned to each dose"}
SupportingQuotes == {"significant improvement in overall survival",
                     "improvement in overall survival was significant",
                     "overall",
                     "patients assigned randomly"}

\* line 443: stat_check = _verify_stat_evidence(stat_evidence, source_text),
\* for a finding with statistical evidence
VerifyStatEvidence ==
    /\ pc = "start"
    /\ \E s \in StatSources, e \in StatEvidences :
           /\ source_text' = s
           /\ statistical_evidence' = e
           /\ stat_check' = Some(_verify_stat_evidence(e, s))
    /\ pc' = "stat_checked"
    /\ UNCHANGED <<MAX_CHUNK_CHARS, text, sections, chunks, orchVars, runVars,
                   groundVars, matchVars, supporting_quote, quote_result>>

\* lines 290-306: one turn of the loop of _verify_quotes, called at line 472
VerifyQuote ==
    /\ pc = "start"
    /\ \E s \in QuoteSources, q \in SupportingQuotes :
           /\ source_text' = s
           /\ supporting_quote' = q
           /\ quote_result' = Some(verify_quote(q, s))
    /\ pc' = "quote_checked"
    /\ UNCHANGED <<MAX_CHUNK_CHARS, text, sections, chunks, orchVars, runVars,
                   groundVars, matchVars, statistical_evidence, stat_check>>

EvidenceNext ==
    \/ VerifyStatEvidence
    \/ VerifyQuote

SpecEvidence == ValidateInit /\ [][EvidenceNext]_vars

----------------------------------------------------------------------------
(* The claims about the chunker, under SpecChunker *)

\* C1: every chunk split_into_sections returns has a content of at most
\* MAX_CHUNK_CHARS characters, also a section longer than the budget and a
\* chunk made by merging adjacent chunks with the blank-line separator.
C1_ChunksWithinBudget ==
    pc = "split" =>
        \A i \in DOMAIN chunks : Len(chunks[i].content) <= MAX_CHUNK_CHARS

\* every section has an offset, and it lies inside the text
OffsetsInside(t, secs) ==
    \A i \in DOMAIN secs :
        secs[i].offset # None /\ secs[i].offset[1] \in 0..Len(t)

\* the trimmed contents of the chunks, one after the other
RECURSIVE TrimmedConcat(_)
TrimmedConcat(cs) ==
    IF cs = <<>> THEN <<>>
    ELSE strip(Head(cs).content) \o TrimmedConcat(Tail(cs))

\* C2: for sections whose offsets lie inside the text, given in any order,
\* the trimmed chunk contents, concatenated in the order of the chunks, hold
\* the characters of the text that are not whitespace, each once and in the
\* order of the text, also after merging.
C2_ConcatReproducesText ==
    (pc = "split" /\ OffsetsInside(text, sections)) =>
        NonSpace(TrimmedConcat(chunks)) = NonSpace(text)

\* sections given out of order, a text without whitespace, and a chunk made
\* by merging (it holds the separator)
C2_Witness ==
    /\ pc = "split"
    /\ OffsetsInside(text, sections)
    /\ Len(sections) >= 2
    /\ sections[1].offset[1] > sections[2].offset[1]
    /\ Len(text) >= 2
    /\ NonSpace(text) = text
    /\ Len(chunks) >= 2
    /\ \E i \in DOMAIN chunks : NonSpace(chunks[i].content) # chunks[i].content

----------------------------------------------------------------------------
(* The claims about the orchestrator, under SpecOrch *)

\* C3: when the text yields zero chunks, the orchestrator issues no LLM
\* call (no per-chunk call, no synthesis call) and does not return a result:
\* it reports an input error.
C3_ZeroChunksIsInputError ==
    (pc # "start" /\ Len(chunks) = 0) =>
        /\ synth_calls = 0
        /\ pc \notin {"synthesis", "returned"}

\* C4: for two chunks or more, the partial outputs given to the synthesis
\* call are in the order of the chunks' positions, for every completion
\* order and every assignment of headings.
C4_SynthesisInputInChunkOrder ==
    (synth_input # None /\ Len(chunks) >= 2) =>
        \A k \in 1..(Len(synth_input[1]) - 1) :
            synth_input[1][k].position < synth_input[1][k + 1].position

\* C5: when no call raises, one chunk takes exactly one LLM call and no
\* synthesis call; N >= 2 chunks take exactly N per-chunk calls and one
\* synthesis call, and the synthesis call is issued only when each of the
\* N per-chunk calls has completed.
C5_CallCounts ==
    /\ (Len(chunks) >= 2 /\ synth_calls > 0) =>
           \A i \in Positions : fut[i] = "done"
    /\ (pc = "returned" /\ Len(chunks) = 1) =>
           (chunk_calls[1] = 1 /\ synth_calls = 0)
    /\ (pc = "returned" /\ Len(chunks) >= 2) =>
           ((\A i \in Positions : chunk_calls[i] = 1) /\ synth_calls = 1)

\* two chunks or more were processed and merged, and no call raised
C5_Witness ==
    /\ pc = "returned"
    /\ Len(chunks) >= 2
    /\ ~call_raised
    /\ synth_calls = 1

\* C6: a chunk's result is left out of the synthesis input if and only if
\* its output was unparsable (parsed = null); a chunk whose output parses to
\* an empty value is passed to the synthesis.
C6_ExcludedIffUnparsable ==
    synth_input # None =>
        \A i \in Positions :
            (\E k \in DOMAIN synth_input[1] : synth_input[1][k].position = i)
                <=> chunk_result[i] # None

\* C7: a call that raises is not retried, the exception leaves the
\* orchestrator (it never returns a result, and it cannot stop before the
\* exception has left), and no synthesis call is issued after a per-chunk
\* call has raised.
C7_RaisePropagates ==
    /\ \A i \in Positions : chunk_calls[i] <= 1
    /\ synth_calls <= 1
    /\ (\E i \in Positions : fut[i] = "raised") => synth_calls = 0
    /\ call_raised =>
           /\ pc # "returned"
           /\ result = None
           /\ pc # "raised" => ENABLED OrchNext

\* a per-chunk call raised while another chunk's call returned, and the
\* exception has left the orchestrator
C7_Witness ==
    /\ pc = "raised"
    /\ \E i, j \in Positions : fut[i] = "raised" /\ fut[j] = "done"
    /\ synth_calls = 0

----------------------------------------------------------------------------
(* The claims about the workflow runner, under SpecRun and SpecRunFair *)

\* C8: a vision call that raises during the figure fan-out is not retried
\* and fails the run: the run goes no further than the fan-out, and writes
\* no figure descriptions to the cache.
C8_VisionFailurePropagates ==
    /\ doc_id # None => vision_calls <= figures[doc_id[1]]
    /\ vision_raised => (pc \in {"vision", "failed"} /\ ~cache_written)

\* C9: a run on a document whose cache entry an earlier run has written
\* issues no vision call and uses the cached descriptions, whatever the
\* cached list holds.
C9_LaterRunsUseCache ==
    cached_before # None =>
        /\ vision_calls = 0
        /\ pc # "vision"
        /\ figure_descriptions = cached_before[1]

\* C10: the self-correction loop ends; there are at most
\* MAX_CORRECTION_ROUNDS correction calls and no more fast validations than
\* correction calls, and correction_rounds of the report is at most
\* MAX_CORRECTION_ROUNDS, whatever the validations and the corrections give.
C10_LoopBounded ==
    /\ [](/\ correction_calls <= MAX_CORRECTION_ROUNDS
          /\ fast_validations <= correction_calls
          /\ grounding # None =>
                 grounding[1].correction_rounds <= MAX_CORRECTION_ROUNDS)
    /\ (pc = "loop" ~> pc \in {"done", "failed"})

\* a run ended after a correction call and a fast validation that left errors
C10_Witness ==
    /\ pc = "done"
    /\ grounding # None
    /\ grounding[1].errors > 0
    /\ grounding[1].correction_rounds = MAX_CORRECTION_ROUNDS
    /\ correction_calls = 1
    /\ fast_validations = 1

----------------------------------------------------------------------------
(* The claims about the grounding validator, under SpecValidate *)

\* the verdicts of the three layers that the report counts: those of the
\* judge, those of the quotes, and those of the statistical evidence that
\* was checked
CountedVerdicts ==
    LET o == output[1]
    IN  {<<"judge", i>> : i \in DOMAIN all_verdicts(o, judge[1], skip_llm)}
        \cup {<<"quote", i>> : i \in DOMAIN o.supporting_quotes}
        \cup {<<"stat", i>> : i \in {j \in DOMAIN o.key_findings :
                                       /\ o.key_findings[j].shape = "object"
                                       /\ o.key_findings[j].check # "null"}}

CountedGrounded ==
    LET o == output[1]
        vs == all_verdicts(o, judge[1], skip_llm)
    IN  {c \in CountedVerdicts :
            \/ c[1] = "judge" /\ (vs[c[2]].severity = "ok" \/ vs[c[2]].grounded = "true")
            \/ c[1] = "quote" /\ o.supporting_quotes[c[2]].check = "true"
            \/ c[1] = "stat" /\ o.key_findings[c[2]].check = "true"}

C14_ScoreInRange ==
    pc = "validated" =>
        /\ 0 <= report[1].overall_score
        /\ report[1].overall_score <= 100
        /\ 0 <= report[1].grounded_claims
        /\ report[1].grounded_claims <= report[1].total_claims

\* a report made from a verdict with an unexpected severity, next to a
\* statistical evidence that was found
C14_Witness ==
    /\ pc = "validated"
    /\ judge[1].kind = "verdicts"
    /\ \E i \in DOMAIN all_verdicts(output[1], judge[1], skip_llm) :
           all_verdicts(output[1], judge[1], skip_llm)[i].severity = "other"
    /\ \E i \in DOMAIN report[1].details.statistical_evidence :
           report[1].details.statistical_evidence[i].grounded = "true"
    /\ report[1].grounded_claims >= 1

\* C15: when the judge call raises or returns a text that is not JSON,
\* validate_grounding returns a report and does not raise; every claim that
\* was queued for the judge has a verdict, with severity = warning and
\* grounded = null, and is counted as a warning.
C15_JudgeFailureGivesWarnings ==
    (pc \in {"validated", "validate_raised"}
     /\ judge[1].kind \in {"raises", "not_json"}) =>
        /\ pc = "validated"
        /\ report # None
        /\ LET o == output[1]
               queued == claims_for_llm(o)
               vs == all_verdicts(o, judge[1], skip_llm)
               r == report[1]
               Of(t) == {i \in DOMAIN queued : queued[i].type = t}
           IN  /\ DOMAIN vs = DOMAIN queued
               /\ \A i \in DOMAIN vs :
                      /\ vs[i].claim = queued[i].id
                      /\ vs[i].severity = "warning"
                      /\ vs[i].grounded = "null"
               /\ Len(r.details.key_findings) = Cardinality(Of("key_finding"))
               /\ Len(r.details.safety_claims) = Cardinality(Of("safety_claim"))
               /\ \A i \in DOMAIN r.details.key_findings :
                      /\ r.details.key_findings[i].severity = "warning"
                      /\ r.details.key_findings[i].grounded = "null"
               /\ \A i \in DOMAIN r.details.safety_claims :
                      /\ r.details.safety_claims[i].severity = "warning"
                      /\ r.details.safety_claims[i].grounded = "null"
               /\ r.warnings >= Len(queued)

\* the judge call raised with two claims queued, a key finding among them
C15_Witness ==
    /\ pc = "validated"
    /\ judge[1].kind = "raises"
    /\ Len(claims_for_llm(output[1])) >= 2
    /\ Len(report[1].details.key_findings) >= 1
    /\ report[1].warnings >= 2

----------------------------------------------------------------------------
(* The claims about the correction step, under SpecCorrect *)

\* C11: correct_ungrounded_claims on a report whose errors count is 0
\* requests no correction from the LLM, applies no correction and returns
\* the structured result it was given.
C11_NoErrorsNoCorrection ==
    (pc \in {"corrected", "correct_raised"} /\ report[1].errors = 0) =>
        /\ response = None
        /\ pc = "corrected"
        /\ corrections_applied = <<>>
        /\ corrected = output

\* where the k-th array of the structured result is after and before
RECURSIVE IsSubsequence(_, _)
IsSubsequence(s, t) ==
    IF s = <<>> THEN TRUE
    ELSE IF t = <<>> THEN FALSE
    ELSE IF Head(s) = Head(t) THEN IsSubsequence(Tail(s), Tail(t))
         ELSE IsSubsequence(s, Tail(t))

Shapes(list) == [i \in DOMAIN list |-> list[i].shape]

\* the length of the array that a correction of ungrounded claim ug is
\* applied to
TargetLen(o, ug) ==
    IF ug.type = "key_finding" THEN Len(o.key_findings)
    ELSE IF ug.type = "supporting_quote" THEN Len(o.supporting_quotes)
    ELSE IF ug.type = "safety_claim"
    THEN Len(o.adverse_events) + Len(o.serious_adverse_events)
    ELSE 0

\* a correction that is not an object, or whose error_index or
\* original_index is missing, negative, too large or not an integer
BadCorrection(c, o, ungrounded) ==
    \/ ~c.dict
    \/ c.error_index.is # "int"
    \/ c.error_index.n \notin 1..Len(ungrounded)
    \/ c.original_index.is = "other"
    \/ /\ c.original_index.is = "int"
       /\ c.original_index.n \notin 0..(TargetLen(o, ungrounded[c.error_index.n]) - 1)

\* C12: correct_ungrounded_claims does not raise, whatever its LLM call
\* returns; a response that is malformed, or all of whose corrections have
\* a bad index or are not objects, leaves the structured result as it was
\* and applies nothing.
C12_NeverRaises ==
    (pc \in {"corrected", "correct_raised"} /\ response # None) =>
        /\ pc = "corrected"
        /\ (\A k \in DOMAIN response[1].corrections :
                BadCorrection(response[1].corrections[k], output[1],
                              _collect_ungrounded_claims(report[1])))
           => (corrected = output /\ corrections_applied = <<>>)

\* C20: a correction leaves every array of the structured result an array
\* whose elements keep their shapes: the shapes of the elements after the
\* correction are those of the elements before it, some removed.
C20_ShapesPreserved ==
    pc = "corrected" =>
        /\ IsSubsequence(Shapes(corrected[1].key_findings),
                         Shapes(output[1].key_findings))
        /\ IsSubsequence(Shapes(corrected[1].supporting_quotes),
                         Shapes(output[1].supporting_quotes))
        /\ IsSubsequence(Shapes(corrected[1].adverse_events),
                         Shapes(output[1].adverse_events))
        /\ IsSubsequence(Shapes(corrected[1].serious_adverse_events),
                         Shapes(output[1].serious_adverse_events))

----------------------------------------------------------------------------
(* The claims about the figure matcher, under SpecMatch *)

\* the distinct figure numbers the text refers to
FigNums == {fig_refs[k].fig_num : k \in DOMAIN fig_refs}

\* the place of image img in (page, index) order, and the figure number at
\* place k in figure-number order
PlaceOf(img) ==
    1 + Cardinality({i \in DOMAIN images :
                        \/ images[i].page < img.page
                        \/ images[i].page = img.page /\ images[i].index < img.index})

NumAt(k) == CHOOSE n \in FigNums : Cardinality({m \in FigNums : m < n}) = k - 1

\* the same descriptions supplied in the order p
Reordered(p) == [i \in DOMAIN images |-> images[p[i]]]

\* C17: with as many figure descriptions as distinct figure numbers in the
\* text, the image at place k in (page, index) order gets the label
\* "Fig. n" of the k-th figure number; no label is given twice, and the
\* result is the same for every order the descriptions are supplied in.
C17_EqualCountsPairInOrder ==
    (pc = "matched" /\ images # <<>> /\ Cardinality(FigNums) = Len(images)) =>
        /\ Len(matched[1]) = Len(images)
        /\ \A i \in DOMAIN images :
               matched[1][PlaceOf(images[i])] =
                   [label |-> "Fig. " \o ToString(NumAt(PlaceOf(images[i]))),
                    page |-> images[i].page,
                    description |-> images[i].description]
        /\ \A k, l \in DOMAIN matched[1] :
               k # l => matched[1][k].label # matched[1][l].label
        /\ \A p \in Permutations(DOMAIN images) :
               _match_figures_to_paper(fig_refs, Reordered(p)) = matched[1]

\* two images supplied with the later page first, and two figure numbers
\* referred to in descending order, one of them twice
C17_Witness ==
    /\ pc = "matched"
    /\ Len(images) = 2
    /\ images[1].page > images[2].page
    /\ Cardinality(FigNums) = 2
    /\ Len(fig_refs) >= 2
    /\ fig_refs[1].fig_num > fig_refs[2].fig_num
    /\ matched[1][1].label = "Fig. 1"
    /\ matched[1][2].label = "Fig. 2"

\* the fallback: images and references, and not as many of the ones as of
\* the others
CountMismatch ==
    /\ pc = "matched"
    /\ images # <<>>
    /\ FigNums # {}
    /\ Cardinality(FigNums) # Len(images)

----------------------------------------------------------------------------
(* The claims about what run_workflow returns, under SpecRun *)

\* C16: a run in which no call raises returns a grounding report that is
\* not null, whatever the final LLM output parses to.
C16_GroundingNeverNull ==
    pc = "done" => grounding # None

\* the labels of a list of matched figures
Labels(figs) == [k \in DOMAIN figs |-> figs[k].label]

\* C19 as stated: the figure_descriptions of the result are the matched
\* figures, each with a label, a page and a description.
C19_ReturnsMatchedFigures ==
    (pc = "figures_returned" /\ images # <<>>) =>
        /\ returned_figures = matched
        /\ \A k \in DOMAIN returned_figures[1] :
               DOMAIN returned_figures[1][k] = {"label", "page", "description"}

\* C19, amended: the figure_descriptions of the result are the
\* descriptions given to the matcher, with their index and without a
\* label, in the order they were supplied; two images and the two figure
\* numbers 1 and 2 give the matched figures "Fig. 1" and "Fig. 2" in page
\* order, which the result does not hold.
C19_ReturnsFigureDescriptions ==
    pc = "figures_returned" =>
        /\ returned_figures = Some(images)
        /\ \A k \in DOMAIN returned_figures[1] :
               DOMAIN returned_figures[1][k] = {"index", "page", "description"}
        /\ (Len(images) = 2 /\ FigNums = {1, 2}) =>
               /\ Labels(matched[1]) = <<"Fig. 1", "Fig. 2">>
               /\ matched[1][1].page <= matched[1][2].page

\* two images, supplied with the later page first, and the figures 1 and 2
C19_Witness ==
    /\ pc = "figures_returned"
    /\ Len(images) = 2
    /\ FigNums = {1, 2}
    /\ images[1].page > images[2].page
    /\ Len(returned_figures[1]) = 2
    /\ returned_figures[1][1].page > returned_figures[1][2].page
    /\ Labels(matched[1]) = <<"Fig. 1", "Fig. 2">>

----------------------------------------------------------------------------
(* The claims about the fast mode and about the verdicts of the judge,     *)
(* under SpecValidate and SpecCorrect                                       *)

\* the values of a list whose check failed
Failed(list) == {i \in DOMAIN list : list[i].check = "false"}

\* the key findings that are objects: those with a statistical evidence
ObjectFindings(o) ==
    {i \in DOMAIN o.key_findings : o.key_findings[i].shape = "object"}

\* C24: in fast mode no judge call is issued, every claim queued for the
\* judge is counted as grounded and its verdict in the details is
\* grounded = true, severity = ok, and the errors of the report are the
\* supporting quotes and the statistical evidence that were not found.
C24_FastModePresumesClaims ==
    (pc = "validated" /\ skip_llm) =>
        LET o == output[1]
            r == report[1]
            judged == r.details.key_findings \o r.details.safety_claims
        IN  /\ judge_calls = 0
            /\ \A i \in DOMAIN judged :
                   judged[i].grounded = "true" /\ judged[i].severity = "ok"
            /\ Len(judged) + (IF o.clinical_implications = "" THEN 0 ELSE 1)
                   = Len(claims_for_llm(o))
            /\ r.errors = Cardinality(Failed(o.supporting_quotes))
                          + Cardinality(Failed(o.key_findings) \cap ObjectFindings(o))
            /\ r.grounded_claims >= Len(claims_for_llm(o))
            /\ r.warnings = Cardinality({i \in DOMAIN o.supporting_quotes :
                                            o.supporting_quotes[i].check = "null"})

\* a fast validation of a key finding whose evidence was not found and of
\* a safety claim
C24_Witness ==
    /\ pc = "validated"
    /\ skip_llm
    /\ Len(report[1].details.key_findings) = 1
    /\ Len(report[1].details.safety_claims) = 1
    /\ report[1].errors = 1
    /\ report[1].grounded_claims = 2

\* C30: every claim queued for the judge gets one verdict that the report
\* counts, whatever list of verdicts the judge returns, so in full mode
\* total_claims is at least the number of queued claims plus the number of
\* supporting quotes.
C30_OneVerdictPerQueuedClaim ==
    (pc = "validated" /\ ~skip_llm) =>
        /\ Len(all_verdicts(output[1], judge[1], skip_llm))
               = Len(claims_for_llm(output[1]))
        /\ report[1].total_claims >= Len(claims_for_llm(output[1]))
                                      + Len(output[1].supporting_quotes)

\* C29: a report with errors has at least one ungrounded claim for the
\* correction to collect.
C29_ErrorsAreCollected ==
    (pc = "validated" /\ report[1].errors > 0) =>
        _collect_ungrounded_claims(report[1]) # <<>>

----------------------------------------------------------------------------
(* The claims about the removals and the applied list, under SpecCorrect *)

\* the elements of a list that are not at the 0-based positions S
RECURSIVE Without(_, _, _)
Without(list, S, i) ==
    IF i > Len(list) THEN <<>>
    ELSE (IF (i - 1) \in S THEN <<>> ELSE <<list[i]>>) \o Without(list, S, i + 1)

\* the output after the loop over the corrections, before the removals,
\* and the positions the loop has marked for removal
AfterRewrites ==
    ApplyAll(Applying(output[1]), response[1].corrections,
             _collect_ungrounded_claims(report[1]), 1)

MarkedFor(t) == Ints(AfterRewrites.removal_indices[t])

\* C23: the output returned is the output after the rewrites without the
\* elements at the positions marked for removal (for the safety claims,
\* positions in adverse_events followed by serious_adverse_events); every
\* other element is kept, in its order.
C23_RemovalsAtMarkedPositions ==
    (pc = "corrected" /\ response # None /\ response[1].kind = "corrections") =>
        LET o == AfterRewrites.out
            c == corrected[1]
        IN  /\ c.key_findings = Without(o.key_findings, MarkedFor("key_finding"), 1)
            /\ c.supporting_quotes =
                   Without(o.supporting_quotes, MarkedFor("supporting_quote"), 1)
            /\ c.adverse_events \o c.serious_adverse_events =
                   Without(o.adverse_events \o o.serious_adverse_events,
                           MarkedFor("safety_claim"), 1)
            /\ c.adverse_events =
                   Without(o.adverse_events, MarkedFor("safety_claim"), 1)

\* the entries of the applied list with an action
Entries(action) ==
    {i \in DOMAIN corrections_applied : corrections_applied[i].action = action}

\* C28: the applied list has an entry "removed" only for an element that
\* was removed, so a call that changes nothing returns an empty list.
C28_AppliedEntriesAreChanges ==
    pc = "corrected" =>
        /\ Cardinality(Entries("removed")) <= Size(output[1]) - Size(corrected[1])
        /\ corrected[1] = output[1] => corrections_applied = <<>>

----------------------------------------------------------------------------
(* The claims about the fallback and the budget of the chunker, under      *)
(* SpecChunker                                                              *)

\* the sections that have an offset
KnownOffsets == {i \in DOMAIN sections : sections[i].offset # None}

\* ceil(a / b)
CeilDiv(a, b) == (a + b - 1) \div b

\* C25: with fewer than two sections that have an offset the chunks are
\* the consecutive slices of MAX_CHUNK_CHARS characters of the text, headed
\* "Part 1", "Part 2", ..., ceil(len(text) / MAX_CHUNK_CHARS) of them.
C25_FallbackSlicesBySize ==
    (pc = "split" /\ Cardinality(KnownOffsets) < 2) =>
        /\ Len(chunks) = CeilDiv(Len(text), MAX_CHUNK_CHARS)
        /\ \A k \in DOMAIN chunks :
               /\ chunks[k].heading = "Part " \o ToString(k)
               /\ chunks[k].content =
                      SubSeq(text, (k - 1) * MAX_CHUNK_CHARS + 1,
                             IF k * MAX_CHUNK_CHARS < Len(text)
                             THEN k * MAX_CHUNK_CHARS ELSE Len(text))

\* the number of chunks of the text and the sections for budget b
CountFor(b) == Len(split_into_sections(text, sections, b))

\* C26: for one text and one section list, a smaller budget gives at least
\* as many chunks as a larger one.
C26_CountMonotonicInBudget ==
    pc = "split" =>
        \A b1, b2 \in 1..MaxBudget :
            b1 < b2 => CountFor(b1) >= CountFor(b2)

\* sections that are merged with the largest budget and not with the
\* smallest, and a text without sections that the smallest budget slices
\* into more parts
C26_Witness ==
    /\ pc = "split"
    /\ Cardinality(KnownOffsets) = 2
    /\ CountFor(1) > CountFor(MaxBudget)
    /\ Len(chunks) = CountFor(MAX_CHUNK_CHARS)
    /\ \E k \in DOMAIN chunks : Len(chunks[k].content) > MAX_CHUNK_CHARS

----------------------------------------------------------------------------
(* The claims about the statistical evidence and the supporting quotes,
   under SpecEvidence *)

\* whether the values extracted from a text have the metric HR=0.64, the
\* confidence interval (0.58, 0.71) and the p-value p<0.001
YieldsHazardRatioResult(values) ==
        /\ \E i \in DOMAIN values :
               /\ values[i].type = "metric"
               /\ values[i].name = "HR"
               /\ values[i].value = "0.64"
        /\ \E i \in DOMAIN values :
               /\ values[i].type \in {"ci", "ci_bracket"}
               /\ values[i].low = "0.58"
               /\ values[i].high = "0.71"
        /\ \E i \in DOMAIN values :
               /\ values[i].type = "p_value"
               /\ values[i].operator = "<"
               /\ values[i].value = "0.001"

\* C21: for the statistical evidence "HR=0.64, 95% CI 0.58-0.71, p<0.001"
\* checked against the source "hazard ratio of 0.64 (95% CI: 0.58 to 0.71),
\* p<0.001", the extraction yields HR=0.64, the interval (0.58, 0.71) and
\* p<0.001 from the evidence and also from the source, and the check is
\* grounded
C21_ExtractsFromEvidenceAndSource ==
    (/\ pc = "stat_checked"
     /\ statistical_evidence = "HR=0.64, 95% CI 0.58-0.71, p<0.001"
     /\ source_text = "hazard ratio of 0.64 (95% CI: 0.58 to 0.71), p<0.001")
    => /\ YieldsHazardRatioResult(stat_check[1].claim_values)
       /\ YieldsHazardRatioResult(stat_check[1].source_values)
       /\ ~stat_check[1].raised
       /\ stat_check[1].grounded = "true"

\* C22: the quote "significant improvement in overall survival" checked
\* against the source "a significant improvement in overall sur- vival was
\* observed" is accepted at the content-word-coverage step, with a coverage
\* of at least 0.85, and its verdict is grounded
C22_AcceptedByWordCoverage ==
    (/\ pc = "quote_checked"
     /\ supporting_quote = "significant improvement in overall survival"
     /\ source_text = "a significant improvement in overall sur- vival was observed")
    => /\ quote_result[1].step = "coverage"
       /\ coverage_accepts(word_ratio(_normalize(source_text),
                                      _normalize(supporting_quote)))
       /\ quote_result[1].grounded = "true"

\* the p-values among the values extracted from a text
PValuesOf(values) ==
    {values[i] : i \in {k \in DOMAIN values : values[k].type = "p_value"}}

\* C27: every claimed p-value, whatever its operator, is counted as found
\* when the source has a p-value whose number is at most the claimed one
C27_SmallerSourcePValueIsFound ==
    pc = "stat_checked" =>
        \A cv \in PValuesOf(stat_check[1].claim_values) :
            (\E sv \in PValuesOf(stat_check[1].source_values) :
                 /\ float(cv.value) # None
                 /\ float(sv.value) # None
                 /\ float(sv.value)[1] <= float(cv.value)[1])
            => /\ ~stat_check[1].raised
               /\ \E i \in DOMAIN stat_check[1].found :
                      stat_check[1].found[i] = label(cv)

====
